---------------------------- MODULE Spec2Model ----------------------------
(***************************************************************************)
(* A model of the RSA cryptanalysis engine: the number-theory utilities,   *)
(* Wiener's attack, the Hastad broadcast attack, the double-encryption     *)
(* attack, the tiered factorizer with its threaded ECM tier, and the       *)
(* orchestrator crack_thread of the front-end.                             *)
(*                                                                         *)
(* Python's None is the value None (= -1) and a raised exception is the    *)
(* value Raised (= -2); every genuine value of the model is >= 0.          *)
(* Integers are Python's unbounded integers; the bounds below keep every   *)
(* intermediate product inside TLC's 32-bit range.                         *)
(***************************************************************************)
EXTENDS Integers, Sequences, FiniteSets, TLC

VARIABLES
    args,       \* arguments of the pure function under call (a record)
    ret,        \* its outcome: a value, None, Raised, or Pending
    phase,      \* "call" before the function has run, "done" after
    ECM_FOUND,  \* the module-level found flag of factorize.py
    jobs,       \* moduli the caller has still to pass to threaded_ecm
    callPc,     \* position of the caller inside threaded_ecm
    callN,      \* the n of the current (or last) threaded_ecm call
    callNo,     \* number of threaded_ecm calls started
    callRet,    \* value returned by the last completed call
    spawned,    \* workers started by the current call
    wpc,        \* position of each _ecm_thread worker
    wn,         \* the n each worker was started with
    wcurves,    \* curves each worker has still to try
    wf,         \* the factor a worker is about to record
    stop_flag,        \* RSACracker.stop_flag
    btn_crack,        \* state of the crack button: "normal" or "disabled"
    entries,          \* the input fields: each key's integer, None if empty
    results_history,  \* RSACracker.results_history: the decimals reported
    main_pc,          \* position of the GUI thread: "idle" or inside clear_all
    after_queue,      \* callbacks posted by root.after that re-enable the button
    crack_pc,         \* position of each crack_thread
    collect_i,        \* index in param_keys of the key a thread reads next
    params,           \* each thread's params dictionary (None: key absent)
    crack_m,          \* each thread's local m
    started           \* the attacks each thread has called, in order

pureVars == <<args, ret, phase>>
ecmVars == <<ECM_FOUND, jobs, callPc, callN, callNo, callRet, spawned, wpc, wn, wcurves, wf>>
crackVars == <<stop_flag, btn_crack, entries, results_history, main_pc, after_queue,
               crack_pc, collect_i, params, crack_m, started>>
vars == <<pureVars, ecmVars, crackVars>>

None == 0 - 1
Raised == 0 - 2
Pending == 0 - 3

\* Python truthiness of an optional integer: None and 0 are falsy.
Truthy(x) == x # None /\ x # 0

Min(a, b) == IF a <= b THEN a ELSE b
Max(a, b) == IF a >= b THEN a ELSE b

\* The worker pool of threaded_ecm and the state in which it is at rest.
EcmThreads == 2
EcmCurves == 2
EcmThreadCap == 8

\* The moduli passed to threaded_ecm, each once, in any order.
EcmJobs == {1, 15, 77}

ThreadsPerCall == Min(EcmThreads, EcmThreadCap)
Workers == 1..(Cardinality(EcmJobs) * ThreadsPerCall)

\* The worker started as the i-th thread of call number k.
WorkerOf(k, i) == (k - 1) * ThreadsPerCall + i

\* The call that started worker w.
CallOfWorker(w) == ((w - 1) \div ThreadsPerCall) + 1

EcmQuiet ==
    /\ ECM_FOUND = None
    /\ jobs = {}
    /\ callPc = "idle"
    /\ callN = None
    /\ callNo = 0
    /\ callRet = Pending
    /\ spawned = 0
    /\ wpc = [w \in Workers |-> "unborn"]
    /\ wn = [w \in Workers |-> None]
    /\ wcurves = [w \in Workers |-> 0]
    /\ wf = [w \in Workers |-> None]

\* The crack_thread slots: at most MaxAttempts attempts are started.
MaxAttempts == 2
Attempts == 1..MaxAttempts

param_keys == <<"e", "e1", "e2", "n", "c", "c1", "c2", "c3", "p", "q", "d", "dp", "dq">>
Keys == {param_keys[i] : i \in 1..Len(param_keys)}
NoEntries == [k \in Keys |-> None]

\* The front-end at rest, with empty input fields and no attempt started.
CrackQuiet ==
    /\ stop_flag = FALSE
    /\ btn_crack = "normal"
    /\ entries = NoEntries
    /\ results_history = <<>>
    /\ main_pc = "idle"
    /\ after_queue = 0
    /\ crack_pc = [t \in Attempts |-> "unborn"]
    /\ collect_i = [t \in Attempts |-> 1]
    /\ params = [t \in Attempts |-> NoEntries]
    /\ crack_m = [t \in Attempts |-> None]
    /\ started = [t \in Attempts |-> <<>>]

-----------------------------------------------------------------------------
(* Primitives of the big-integer library (gmpy2 / math), by what they do.  *)

\* r*r <= x for r >= 0, without forming r*r.
SquareLeq(r, x) == r = 0 \/ r <= x \div r

\* math.isqrt / gmpy2.isqrt: the floor of the square root of x >= 0, found
\* digit by digit in base 256 (two digits: every root below 65536).
IsqrtSearch(x, lo, step) ==
    CHOOSE r \in {lo + j * step : j \in 0..255} :
        SquareLeq(r, x) /\ ~SquareLeq(r + step, x)

isqrt(x) == IsqrtSearch(x, IsqrtSearch(x, 0, 256), 1)

\* gmpy2.is_prime, exact on the model's range.
is_prime(n) == n >= 2 /\ \A i \in 2..isqrt(n) : n % i # 0

RECURSIVE gcd(_, _)
gcd(a, b) == IF b = 0 THEN a ELSE gcd(b, a % b)

RECURSIVE PowLoop(_, _, _, _)
PowLoop(result, base, x, n) ==
    IF x = 0 THEN result
    ELSE PowLoop(IF x % 2 = 1 THEN (result * base) % n ELSE result,
                 (base * base) % n, x \div 2, n)

\* Python's pow(b, x, n) for x >= 0, n >= 1, by square and multiply.
pow(b, x, n) == PowLoop(1 % n, b % n, x, n)

-----------------------------------------------------------------------------
(* rsa_core/utils.py                                                       *)

\* Python's b % a and b // a for a # 0: the remainder has the sign of the
\* divisor and the quotient is rounded down.
PyMod(b, a) == IF a > 0 THEN b % a ELSE 0 - ((0 - b) % (0 - a))

PyDiv(b, a) == IF a > 0 THEN b \div a ELSE (0 - b) \div (0 - a)

RECURSIVE egcd(_, _)
\* egcd(a, b) = <<g, x, y>> with a*x + b*y = g; g is the gcd for
\* a, b >= 0 and may be its negative otherwise.
egcd(a, b) ==
    IF a = 0 THEN <<b, 0, 1>>
    ELSE LET r == egcd(PyMod(b, a), a)
         IN  <<r[1], r[3] - PyDiv(b, a) * r[2], r[2]>>

mod_inverse_NoGcdCheck(a, m) ==
    IF m <= 0 THEN Raised ELSE egcd(a, m)[2] % m

\* mod_inverse: Raised stands for the ValueError.
mod_inverse(a, m) ==
    IF m <= 0 THEN Raised
    ELSE LET r == egcd(a, m)
         IN  IF r[1] # 1 THEN Raised ELSE r[2] % m

\* validate_rsa_params(e=e, n=n) and (e=e, n=n, c=c) on integer arguments:
\* n > 0 and 1 < e < n (c is not range-checked).
validate_rsa_params(e, n) == n > 0 /\ e > 1 /\ e < n

-----------------------------------------------------------------------------
(* rsa_core/attacks.py: wiener_attack                                      *)

WienerCap == 100

RECURSIVE continued_fraction(_, _)
continued_fraction(a, b) ==
    IF b = 0 THEN <<>>
    ELSE <<a \div b>> \o continued_fraction(b, a % b)

RECURSIVE ConvergentLoop(_, _, _, _, _, _, _, _)
ConvergentLoop(cf, i, h1, h2, k1, k2, acc, cap) ==
    IF i > Len(cf) THEN acc
    ELSE LET h == cf[i] * h1 + h2
             k == cf[i] * k1 + k2
             acc2 == IF k # 0 THEN Append(acc, <<h, k>>) ELSE acc
         IN  IF Len(acc2) > cap THEN acc2
             ELSE ConvergentLoop(cf, i + 1, h, h1, k, k1, acc2, cap)

convergents_SwappedSeeds(cf, cap) == ConvergentLoop(cf, 1, 0, 1, 1, 0, <<>>, cap)

\* The convergents (h, k) of the expansion cf, at most cap + 1 of them.
convergents(cf, cap) == ConvergentLoop(cf, 1, 1, 0, 0, 1, <<>>, cap)

ConvergentVerifies_NoRootCheck(e, n, k, d) ==
    /\ k # 0
    /\ (e * d - 1) % k = 0
    /\ LET phi == (e * d - 1) \div k
           s == n - phi + 1
       IN  /\ s >= 0 /\ s <= n + 1
           /\ LET discriminant == s * s - 4 * n
              IN  /\ discriminant >= 0
                  /\ LET sqrt_disc == isqrt(discriminant)
                         p == (s + sqrt_disc) \div 2
                         q == (s - sqrt_disc) \div 2
                     IN  p > 1 /\ q > 1

\* The test of one convergent (k, d).  The code squares s for every s; the
\* model evaluates the test only for 0 <= s <= n + 1, since outside that
\* range the final check p*q == n, p > 1, q > 1 cannot pass (q < 0 when
\* s < 0, and (p-1)*(q-1) = n - s + 1 < 0 when s > n + 1).
ConvergentVerifies(e, n, k, d) ==
    /\ k # 0
    /\ (e * d - 1) % k = 0
    /\ LET phi == (e * d - 1) \div k
           s == n - phi + 1
       IN  /\ s >= 0 /\ s <= n + 1
           /\ LET discriminant == s * s - 4 * n
              IN  /\ discriminant >= 0
                  /\ LET sqrt_disc == isqrt(discriminant)
                     IN  /\ sqrt_disc * sqrt_disc = discriminant
                         /\ LET p == (s + sqrt_disc) \div 2
                                q == (s - sqrt_disc) \div 2
                            IN  p * q = n /\ p > 1 /\ q > 1

RECURSIVE TestConvergents(_, _, _, _)
TestConvergents(e, n, cs, i) ==
    IF i > Len(cs) THEN None
    ELSE IF ConvergentVerifies(e, n, cs[i][1], cs[i][2]) THEN cs[i][2]
    ELSE TestConvergents(e, n, cs, i + 1)

wiener_attack(e, n) ==
    IF ~validate_rsa_params(e, n) THEN None
    ELSE TestConvergents(e, n, convergents(continued_fraction(e, n), WienerCap), 1)

-----------------------------------------------------------------------------
(* Inputs of the Wiener specification: every pair 1 < e < n up to          *)
(* WienerMaxN, and the RSA keys (p, q, d) with primes in                   *)
(* PrimeLo..PrimeHi and a small private exponent d <= MaxD.                *)

WienerMaxN == 40
PrimeLo == 80
PrimeHi == 200
MaxD == 3

KeyPrimes == {p \in PrimeLo..PrimeHi : is_prime(p)}

\* d < n^(1/4) / 3, in integers.
SmallD(d, n) == 81 * d * d * d * d < n

\* The Wiener-vulnerable keys: <<p, q, d, e>> with q < p < 2q, d small and
\* coprime to phi, e the inverse of d, 1 < e < n.
WeakKeys ==
    {k \in {<<p, q, d, mod_inverse(d, (p - 1) * (q - 1))>> :
              <<p, q, d>> \in {t \in KeyPrimes \X KeyPrimes \X (2..MaxD) :
                                 /\ t[2] < t[1] /\ t[1] < 2 * t[2]
                                 /\ SmallD(t[3], t[1] * t[2])
                                 /\ gcd(t[3], (t[1] - 1) * (t[2] - 1)) = 1}} :
        k[4] > 1 /\ k[4] < k[1] * k[2]}

WienerInputs ==
    {[e |-> e, n |-> n, d |-> None, p |-> None, q |-> None] :
        <<e, n>> \in {t \in (2..WienerMaxN) \X (2..WienerMaxN) : t[1] < t[2]}}
    \cup {[e |-> k[4], n |-> k[1] * k[2], d |-> k[3], p |-> k[1], q |-> k[2]] :
            k \in WeakKeys}

InitWiener ==
    /\ args \in WienerInputs
    /\ ret = Pending
    /\ phase = "call"
    /\ EcmQuiet
    /\ CrackQuiet

RunWiener ==
    /\ phase = "call"
    /\ ret' = wiener_attack(args.e, args.n)
    /\ phase' = "done"
    /\ UNCHANGED <<args, ecmVars, crackVars>>

SpecWiener == InitWiener /\ [][RunWiener]_vars

\* C3: a value d returned by wiener_attack(e, n) comes with integers
\* p > 1, q > 1 such that p*q = n and e*d = 1 modulo (p-1)*(q-1).
WienerResultVerified ==
    (phase = "done" /\ ret # None) =>
        \E p \in 2..args.n :
            /\ args.n % p = 0
            /\ args.n \div p > 1
            /\ (args.e * ret - 1) % ((p - 1) * (args.n \div p - 1)) = 0

WienerReturnsSome == phase = "done" /\ ret # None /\ args.d = None

-----------------------------------------------------------------------------
(* rsa_core/attacks.py: hastad_broadcast_attack                            *)

RECURSIVE PowLeq(_, _, _)
\* r^k <= x for r >= 0, without forming r^k.
PowLeq(r, k, x) ==
    IF x < 0 THEN FALSE
    ELSE IF k = 0 THEN 1 <= x
    ELSE IF r = 0 THEN TRUE
    ELSE IF x = 0 THEN FALSE
    ELSE IF r = 1 THEN TRUE
    ELSE PowLeq(r, k - 1, x \div r)

RECURSIVE IntPow(_, _)
\* r^k for r >= 0.
IntPow(r, k) ==
    IF k = 0 THEN 1
    ELSE IF r <= 1 THEN r
    ELSE r * IntPow(r, k - 1)

RECURSIVE IrootSearch(_, _, _, _)
IrootSearch(x, k, lo, hi) ==
    IF lo >= hi THEN lo
    ELSE LET mid == (lo + hi + 1) \div 2
         IN  IF PowLeq(mid, k, x) THEN IrootSearch(x, k, mid, hi)
             ELSE IrootSearch(x, k, lo, mid - 1)

\* gmpy2.iroot(x, k) for x >= 0, k >= 1: <<floor of the k-th root, exact>>.
iroot(x, k) ==
    LET r == IrootSearch(x, k, 0, x)
    IN  <<r, PowLeq(r, k, x) /\ ~PowLeq(r, k, x - 1)>>

RECURSIVE Product(_, _)
\* reduce(lambda a, b: a * b, xs) over the first k items, k >= 1.
Product(xs, k) == IF k = 1 THEN xs[1] ELSE Product(xs, k - 1) * xs[k]

RECURSIVE CrtLoop_InverseOfModulus(_, _, _, _, _)
CrtLoop_InverseOfModulus(remainders, moduli, N, i, result) ==
    IF i > Len(remainders) THEN result
    ELSE LET ni == moduli[i]
             Ni == N \div ni
             Mi == mod_inverse(ni, Ni)
         IN  IF Mi = Raised THEN None
             ELSE CrtLoop_InverseOfModulus(remainders, moduli, N, i + 1,
                                           (result + remainders[i] * Ni * Mi) % N)

RECURSIVE CrtLoop(_, _, _, _, _)
\* The loop of the nested chinese_remainder_theorem; a failed inverse makes
\* it return None.
CrtLoop(remainders, moduli, N, i, result) ==
    IF i > Len(remainders) THEN result
    ELSE LET ni == moduli[i]
             Ni == N \div ni
             Mi == mod_inverse(Ni, ni)
         IN  IF Mi = Raised THEN None
             ELSE CrtLoop(remainders, moduli, N, i + 1,
                          (result + remainders[i] * Ni * Mi) % N)

\* The chinese_remainder_theorem nested in hastad_broadcast_attack.  An
\* empty system (reduce of an empty list) and a zero modulus (division by
\* zero) raise.
hastad_crt(remainders, moduli) ==
    IF Len(moduli) = 0 THEN Raised
    ELSE IF \E i \in 1..Len(moduli) : moduli[i] = 0 THEN Raised
    ELSE CrtLoop(remainders, moduli, Product(moduli, Len(moduli)), 1, 0)

HastadOffsets == <<0, 1, 0 - 1, 2, 0 - 2>>

RECURSIVE NearbyRoots(_, _, _)
\* The retry over nearby values; iroot of a negative number raises, which
\* the handler turns into None.
NearbyRoots(x, e, i) ==
    IF i > Len(HastadOffsets) THEN None
    ELSE IF x + HastadOffsets[i] < 0 THEN None
    ELSE LET r == iroot(x + HastadOffsets[i], e)
         IN  IF r[2] THEN r[1] ELSE NearbyRoots(x, e, i + 1)

\* How far a call of hastad_broadcast_attack gets: the early return it
\* leaves through, or "crt" when it goes on to the CRT and the root.
hastad_stage(e, ciphertexts, moduli, has_moduli) ==
    IF ~has_moduli THEN "no_moduli"
    ELSE IF Len(ciphertexts) < e THEN "too_few_ciphertexts"
    ELSE IF Len(moduli) < e THEN "too_few_moduli"
    ELSE "crt"

\* hastad_broadcast_attack(e, ciphertexts, moduli) for e >= 0; has_moduli is
\* FALSE when the moduli argument is left at its default None.
hastad_broadcast_attack(e, ciphertexts, moduli, has_moduli) ==
    IF ~has_moduli THEN None
    ELSE IF Len(ciphertexts) < e THEN None
    ELSE IF Len(moduli) < e THEN None
    ELSE LET count == Min(Min(Len(ciphertexts), Len(moduli)), e)
             c_list == SubSeq(ciphertexts, 1, count)
             n_list == SubSeq(moduli, 1, count)
             m_pow_e == hastad_crt(c_list, n_list)
         IN  IF m_pow_e = Raised \/ m_pow_e = None THEN None
             ELSE IF e = 0 THEN None
             ELSE LET r == iroot(m_pow_e, e)
                  IN  IF r[2] THEN r[1] ELSE NearbyRoots(m_pow_e, e, 1)

-----------------------------------------------------------------------------
(* Inputs of the Hastad specification: e <= HastadMaxE, between e - 1 and  *)
(* e + 1 pairs, moduli in 2..HastadMaxMod (coprime or not), every          *)
(* ciphertext the encryption of one plaintext m below the moduli.          *)

HastadMaxE == 3
HastadMaxMod == 7

HastadModuli ==
    UNION {[1..k -> 2..HastadMaxMod] : k \in 1..(HastadMaxE + 1)}

MinOf(xs) == CHOOSE x \in {xs[i] : i \in 1..Len(xs)} :
                \A i \in 1..Len(xs) : x <= xs[i]

PairwiseCoprime(xs, k) ==
    \A i, j \in 1..k : i < j => gcd(xs[i], xs[j]) = 1

HastadInputs ==
    {[e |-> e, moduli |-> ns, m |-> m,
      ciphertexts |-> [i \in 1..Len(ns) |-> pow(m, e, ns[i])]] :
        <<e, ns, m>> \in {t \in (1..HastadMaxE) \X HastadModuli \X (0..(HastadMaxMod - 1)) :
                            /\ Len(t[2]) >= t[1] - 1
                            /\ Len(t[2]) <= t[1] + 1
                            /\ t[3] < MinOf(t[2])}}

InitHastad ==
    /\ args \in HastadInputs
    /\ ret = Pending
    /\ phase = "call"
    /\ EcmQuiet
    /\ CrackQuiet

RunHastad ==
    /\ phase = "call"
    /\ ret' = hastad_broadcast_attack(args.e, args.ciphertexts, args.moduli, TRUE)
    /\ phase' = "done"
    /\ UNCHANGED <<args, ecmVars, crackVars>>

SpecHastad == InitHastad /\ [][RunHastad]_vars

\* C9: with at least e pairs whose first e moduli are pairwise coprime and
\* c_i = m^e mod n_i for one m < min(n_i), hastad_broadcast_attack returns m.
HastadRecoversMessage ==
    (/\ phase = "done"
     /\ Len(args.moduli) >= args.e
     /\ PairwiseCoprime(args.moduli, args.e)) => ret = args.m

HastadRanOnBroadcast ==
    /\ phase = "done"
    /\ args.e = 3
    /\ Len(args.moduli) = 3
    /\ PairwiseCoprime(args.moduli, 3)
    /\ args.m > 1
    /\ ret = args.m

\* C20: with fewer than e ciphertexts or moduli, or with moduli in use that
\* are not pairwise coprime, hastad_broadcast_attack returns None (and does
\* not raise).
HastadFailsCleanly ==
    (/\ phase = "done"
     /\ \/ Len(args.ciphertexts) < args.e
        \/ Len(args.moduli) < args.e
        \/ ~PairwiseCoprime(args.moduli, args.e)) => ret = None

HastadRefusedSharedFactor ==
    /\ phase = "done"
    /\ args.e = 3
    /\ Len(args.moduli) >= 3
    /\ PairwiseCoprime(args.moduli, 2)
    /\ ~PairwiseCoprime(args.moduli, 3)
    /\ args.m > 1
    /\ ret = None

-----------------------------------------------------------------------------
(* rsa_core/factorize.py                                                   *)

RECURSIVE bit_length(_)
bit_length(n) == IF n = 0 THEN 0 ELSE 1 + bit_length(n \div 2)

Abs(x) == IF x < 0 THEN 0 - x ELSE x

NotFound == <<None, None>>

\* min(f, n // f), max(f, n // f)
OrderedPair(f, n) == <<Min(f, n \div f), Max(f, n \div f)>>

FactorDBMinN == 1000
FactorDBMaxBits == 4096

\* The answers of the lookup service for n: no answer (transport error,
\* timeout, missing library, malformed reply), or a status with its factor
\* list.  "FF" lists the prime factors of n with multiplicity; "CF" lists
\* two factors of n, not both prime, or three in ascending order, whose
\* product is n.
RECURSIVE PrimeFactorsFrom(_, _)
PrimeFactorsFrom(n, i) ==
    IF n = 1 THEN <<>>
    ELSE IF i * i > n THEN <<n>>
    ELSE IF n % i = 0 THEN <<i>> \o PrimeFactorsFrom(n \div i, i)
    ELSE PrimeFactorsFrom(n, i + 1)

Divisors(n) == {f \in 2..(n \div 2) : n % f = 0}

FactorDBAnswers(n) ==
    {[status |-> "error", factors |-> <<>>],
     [status |-> "C", factors |-> <<>>]}
    \cup (IF is_prime(n) THEN {[status |-> "P", factors |-> <<n>>]}
          ELSE {[status |-> "FF", factors |-> PrimeFactorsFrom(n, 2)]})
    \cup {[status |-> "CF", factors |-> <<f, n \div f>>] :
            f \in {g \in Divisors(n) : ~is_prime(g) \/ ~is_prime(n \div g)}}
    \cup {[status |-> "CF", factors |-> <<f[1], f[2], n \div (f[1] * f[2])>>] :
            f \in {g \in Divisors(n) \X Divisors(n) :
                     /\ g[1] <= g[2]
                     /\ g[1] * g[2] * g[2] <= n
                     /\ n % (g[1] * g[2]) = 0}}

RECURSIVE FirstPairWithProduct(_, _, _, _)
\* The first i < j (in loop order) with pf[i] * pf[j] == n, as the sorted
\* pair, else NotFound.
FirstPairWithProduct(pf, n, i, j) ==
    IF i > Len(pf) THEN NotFound
    ELSE IF j > Len(pf) THEN FirstPairWithProduct(pf, n, i + 1, i + 2)
    ELSE IF pf[i] * pf[j] = n THEN <<Min(pf[i], pf[j]), Max(pf[i], pf[j])>>
    ELSE FirstPairWithProduct(pf, n, i, j + 1)

RECURSIVE FirstSquareRoot(_, _, _)
FirstSquareRoot(pf, n, i) ==
    IF i > Len(pf) THEN NotFound
    ELSE IF pf[i] * pf[i] = n THEN <<pf[i], pf[i]>>
    ELSE FirstSquareRoot(pf, n, i + 1)

\* The "FF" branch on the list prime_factors (every listed factor of a
\* fully factored number is prime, so the list is the answer's list).
FactorDBFullyFactored(pf, n) ==
    IF Len(pf) >= 2 THEN
        IF FirstPairWithProduct(pf, n, 1, 2) # NotFound
            THEN FirstPairWithProduct(pf, n, 1, 2)
        ELSE IF FirstSquareRoot(pf, n, 1) # NotFound
            THEN FirstSquareRoot(pf, n, 1)
        ELSE LET p == pf[1]
                 q == n \div p
             IN  IF p * q = n /\ is_prime(q) THEN <<Min(p, q), Max(p, q)>>
                 ELSE NotFound
    ELSE IF Len(pf) = 1 THEN
        LET p == pf[1]
            q == n \div p
        IN  IF p * p = n THEN <<p, p>>
            ELSE IF p * q = n /\ is_prime(q) THEN <<Min(p, q), Max(p, q)>>
            ELSE NotFound
    ELSE NotFound

\* The "CF" branch: the product of all listed factors is compared with n,
\* and the first two are returned.
FactorDBPartlyFactored(factors, n) ==
    IF Len(factors) >= 2 /\ Product(factors, Len(factors)) = n
        THEN <<Min(factors[1], factors[2]), Max(factors[1], factors[2])>>
    ELSE NotFound

\* The ways a lookup fails: the library is missing (ImportError, outer
\* handler), connect() raises on a transport error or a timeout (inner
\* handler), or the reply is malformed and reading it raises (outer
\* handler).  "error" stands for any of them.
FactorDBFailures == {"error", "ImportError", "ConnectionError", "timeout", "malformed"}

factor_from_factordb_FailureRaises(n, answer) ==
    IF n < FactorDBMinN THEN NotFound
    ELSE IF bit_length(n) > FactorDBMaxBits THEN NotFound
    ELSE IF answer.status \in FactorDBFailures THEN <<Raised, Raised>>
    ELSE IF answer.status = "FF" THEN FactorDBFullyFactored(answer.factors, n)
    ELSE IF answer.status = "CF" THEN FactorDBPartlyFactored(answer.factors, n)
    ELSE NotFound

\* factor_from_factordb(n) when the service answers `answer`.
factor_from_factordb(n, answer) ==
    IF n < FactorDBMinN THEN NotFound
    ELSE IF bit_length(n) > FactorDBMaxBits THEN NotFound
    ELSE IF answer.status \in FactorDBFailures THEN NotFound
    ELSE IF answer.status = "FF" THEN FactorDBFullyFactored(answer.factors, n)
    ELSE IF answer.status = "CF" THEN FactorDBPartlyFactored(answer.factors, n)
    ELSE NotFound

RhoSeeds == 5
RhoIterationLimit == 100000

RhoF(x, n) == (x * x + 1) % n

RECURSIVE RhoLoop(_, _, _, _, _)
\* The while loop of one seed; its value is the final d.
RhoLoop(n, x, y, d, limit) ==
    IF ~(d = 1 /\ limit > 0) THEN d
    ELSE LET x2 == RhoF(x, n)
             y2 == RhoF(RhoF(y, n), n)
             d2 == gcd(Abs(x2 - y2), n)
         IN  IF d2 = n THEN d2 ELSE RhoLoop(n, x2, y2, d2, limit - 1)

RECURSIVE RhoSeedLoop(_, _, _)
RhoSeedLoop(n, seeds, i) ==
    IF i > RhoSeeds THEN None
    ELSE LET d == RhoLoop(n, seeds[i], seeds[i], 1, RhoIterationLimit)
         IN  IF 1 < d /\ d < n THEN d ELSE RhoSeedLoop(n, seeds, i + 1)

\* pollard_rho(n) with seeds[i] the i-th value drawn by random.randrange.
pollard_rho(n, seeds) ==
    IF n % 2 = 0 THEN 2
    ELSE IF n % 3 = 0 THEN 3
    ELSE RhoSeedLoop(n, seeds, 1)

RECURSIVE BrentAdvance(_, _, _, _)
\* for _ in range(r): y = (y * y + c) % n
BrentAdvance(y, c, n, r) ==
    IF r = 0 THEN y ELSE BrentAdvance((y * y + c) % n, c, n, r - 1)

RECURSIVE BrentBatch(_, _, _, _, _, _)
\* for _ in range(steps): y = ...; q = q * abs(x - y) % n; value <<y, q>>
BrentBatch(x, y, q, c, n, steps) ==
    IF steps = 0 THEN <<y, q>>
    ELSE LET y2 == (y * y + c) % n
         IN  BrentBatch(x, y2, (q * Abs(x - y2)) % n, c, n, steps - 1)

RECURSIVE BrentInner(_, _, _, _, _, _, _, _, _, _, _)
\* The inner while loop; value [y, q, g, ys, limit].
BrentInner(x, y, q, g, ys, k, r, m, c, n, limit) ==
    IF ~(k < r /\ g = 1 /\ limit > 0)
        THEN [y |-> y, q |-> q, g |-> g, ys |-> ys, limit |-> limit]
    ELSE LET b == BrentBatch(x, y, q, c, n, Min(m, r - k))
         IN  BrentInner(x, b[1], b[2], gcd(b[2], n), y, k + m, r, m, c, n, limit - 1)

RECURSIVE BrentOuter(_, _, _, _, _, _, _, _, _, _)
\* The outer while loop; value [x, g, ys, limit].
BrentOuter(x, y, q, g, ys, r, m, c, n, limit) ==
    IF ~(g = 1 /\ limit > 0) THEN [x |-> x, g |-> g, ys |-> ys, limit |-> limit]
    ELSE LET y1 == BrentAdvance(y, c, n, r)
             s == BrentInner(y, y1, q, g, ys, 0, r, m, c, n, limit)
         IN  BrentOuter(y, s.y, s.q, s.g, s.ys, 2 * r, m, c, n, s.limit)

RECURSIVE BrentRetry(_, _, _, _, _, _)
\* The retry fallback after g == n; its value is the final g.
BrentRetry(x, ys, g, c, n, limit) ==
    IF limit <= 0 THEN g
    ELSE LET ys2 == (ys * ys + c) % n
             g2 == gcd(Abs(x - ys2), n)
         IN  IF g2 > 1 THEN g2 ELSE BrentRetry(x, ys2, g2, c, n, limit - 1)

\* pollard_rho_brent(n) with y, c, m the three values drawn at random.
pollard_rho_brent(n, y, c, m) ==
    IF n % 2 = 0 THEN 2
    ELSE IF n % 3 = 0 THEN 3
    ELSE LET s == BrentOuter(y, y, 1, 1, y, 1, m, c, n, RhoIterationLimit)
             g == IF s.g = n THEN BrentRetry(s.x, s.ys, s.g, c, n, s.limit) ELSE s.g
         IN  IF 1 < g /\ g < n THEN g ELSE None

TrialBits == 100
TrialLimit == 5000000
RhoBits == 300
EcmBits == 1024
MaxBits == 4096

RECURSIVE TrialDivision(_, _, _)
\* The 6k +- 1 scan from i up to limit.
TrialDivision(n, i, limit) ==
    IF i > limit THEN NotFound
    ELSE IF n % i = 0 THEN <<i, n \div i>>
    ELSE IF n % (i + 2) = 0 THEN <<i + 2, n \div (i + 2)>>
    ELSE TrialDivision(n, i + 6, limit)

smart_factor_n_SquareAfterLookup(n, use_factordb, answer, seeds, brent, ecm1, ecm2) ==
    LET bits == bit_length(n)
        sqrt_n == isqrt(n)
        db == IF use_factordb /\ bits <= FactorDBMaxBits
                THEN factor_from_factordb(n, answer) ELSE NotFound
        trial == IF bits <= TrialBits
                   THEN TrialDivision(n, 5, Min(TrialLimit, isqrt(n) + 1))
                   ELSE NotFound
        f_rho == IF bits <= RhoBits THEN pollard_rho(n, seeds) ELSE None
        f_brent == IF bits <= RhoBits
                     THEN pollard_rho_brent(n, brent[1], brent[2], brent[3])
                     ELSE None
    IN  IF n <= 1 THEN NotFound
        ELSE IF n % 2 = 0 THEN <<2, n \div 2>>
        ELSE IF n % 3 = 0 THEN <<3, n \div 3>>
        ELSE IF Truthy(db[1]) /\ Truthy(db[2]) THEN <<Min(db[1], db[2]), Max(db[1], db[2])>>
        ELSE IF sqrt_n * sqrt_n = n THEN <<sqrt_n, sqrt_n>>
        ELSE IF trial # NotFound THEN trial
        ELSE IF Truthy(f_rho) THEN OrderedPair(f_rho, n)
        ELSE IF Truthy(f_brent) THEN OrderedPair(f_brent, n)
        ELSE IF bits <= EcmBits /\ Truthy(ecm1) THEN OrderedPair(ecm1, n)
        ELSE IF bits <= MaxBits /\ Truthy(ecm2) THEN OrderedPair(ecm2, n)
        ELSE NotFound

\* smart_factor_n(n, use_factordb).  What the run draws from outside is
\* passed in: the lookup service's answer, the seeds of the two rho
\* variants, and the values returned by the two threaded_ecm calls.
smart_factor_n(n, use_factordb, answer, seeds, brent, ecm1, ecm2) ==
    LET bits == bit_length(n)
        sqrt_n == isqrt(n)
        db == IF use_factordb /\ bits <= FactorDBMaxBits
                THEN factor_from_factordb(n, answer) ELSE NotFound
        trial == IF bits <= TrialBits
                   THEN TrialDivision(n, 5, Min(TrialLimit, isqrt(n) + 1))
                   ELSE NotFound
        f_rho == IF bits <= RhoBits THEN pollard_rho(n, seeds) ELSE None
        f_brent == IF bits <= RhoBits
                     THEN pollard_rho_brent(n, brent[1], brent[2], brent[3])
                     ELSE None
    IN  IF n <= 1 THEN NotFound
        ELSE IF sqrt_n * sqrt_n = n THEN <<sqrt_n, sqrt_n>>
        ELSE IF n % 2 = 0 THEN <<2, n \div 2>>
        ELSE IF n % 3 = 0 THEN <<3, n \div 3>>
        ELSE IF Truthy(db[1]) /\ Truthy(db[2]) THEN <<Min(db[1], db[2]), Max(db[1], db[2])>>
        ELSE IF trial # NotFound THEN trial
        ELSE IF Truthy(f_rho) THEN OrderedPair(f_rho, n)
        ELSE IF Truthy(f_brent) THEN OrderedPair(f_brent, n)
        ELSE IF bits <= EcmBits /\ Truthy(ecm1) THEN OrderedPair(ecm1, n)
        ELSE IF bits <= MaxBits /\ Truthy(ecm2) THEN OrderedPair(ecm2, n)
        ELSE NotFound

-----------------------------------------------------------------------------
(* rsa_core/factorize.py: _ecm_thread and threaded_ecm.  The caller makes  *)
(* one call after another; the workers of a call that has returned keep    *)
(* running (daemon threads, never killed).                                 *)

\* What int(gmpy2.ecm(n, B1)) gives a worker: a factor 1 < f < n, or None
\* for a trivial result or an exception.
EcmResults(n) == {None} \cup Divisors(n)

InitEcm ==
    /\ args = None /\ ret = Pending /\ phase = "ecm"
    /\ CrackQuiet
    /\ ECM_FOUND = None
    /\ jobs = EcmJobs
    /\ callPc = "idle"
    /\ callN = None
    /\ callNo = 0
    /\ callRet = Pending
    /\ spawned = 0
    /\ wpc = [w \in Workers |-> "unborn"]
    /\ wn = [w \in Workers |-> None]
    /\ wcurves = [w \in Workers |-> 0]
    /\ wf = [w \in Workers |-> None]

\* threaded_ecm entry: ECM_FOUND = None, then the parameter validation.
EcmCall ==
    /\ callPc = "idle"
    /\ \E n \in jobs :
        /\ jobs' = jobs \ {n}
        /\ callN' = n
        /\ callRet' = IF n <= 1 \/ EcmThreads <= 0 \/ EcmCurves <= 0 THEN None ELSE Pending
        /\ callPc' = IF n <= 1 \/ EcmThreads <= 0 \/ EcmCurves <= 0 THEN "idle" ELSE "spawn"
    /\ callNo' = callNo + 1
    /\ ECM_FOUND' = None
    /\ spawned' = 0
    /\ UNCHANGED <<pureVars, crackVars, wpc, wn, wcurves, wf>>

\* One iteration of the loop that starts the worker threads.
EcmSpawn ==
    /\ callPc = "spawn"
    /\ IF spawned < ThreadsPerCall
         THEN /\ spawned' = spawned + 1
              /\ wpc' = [wpc EXCEPT ![WorkerOf(callNo, spawned + 1)] = "check"]
              /\ wn' = [wn EXCEPT ![WorkerOf(callNo, spawned + 1)] = callN]
              /\ wcurves' = [wcurves EXCEPT ![WorkerOf(callNo, spawned + 1)] = EcmCurves]
              /\ UNCHANGED callPc
         ELSE /\ callPc' = "poll"
              /\ UNCHANGED <<spawned, wpc, wn, wcurves>>
    /\ UNCHANGED <<pureVars, crackVars, ECM_FOUND, jobs, callN, callNo, callRet, wf>>

\* The polling loop sees the flag set and breaks.
EcmPollFound ==
    /\ callPc = "poll"
    /\ Truthy(ECM_FOUND)
    /\ callPc' = "join"
    /\ UNCHANGED <<pureVars, crackVars, ECM_FOUND, jobs, callN, callNo, callRet, spawned, wpc, wn, wcurves, wf>>

EcmPollTimeout_WaitsForWorkers ==
    /\ callPc = "poll"
    /\ \A w \in Workers : CallOfWorker(w) = callNo => wpc[w] \in {"done", "stored"}
    /\ callPc' = "join"
    /\ UNCHANGED <<pureVars, crackVars, ECM_FOUND, jobs, callN, callNo, callRet, spawned, wpc, wn, wcurves, wf>>

\* The wall-clock timeout expires and the polling loop ends.
EcmPollTimeout ==
    /\ callPc = "poll"
    /\ callPc' = "join"
    /\ UNCHANGED <<pureVars, crackVars, ECM_FOUND, jobs, callN, callNo, callRet, spawned, wpc, wn, wcurves, wf>>

\* After the bounded joins, return ECM_FOUND.
EcmReturn ==
    /\ callPc = "join"
    /\ callRet' = ECM_FOUND
    /\ callPc' = "idle"
    /\ UNCHANGED <<pureVars, crackVars, ECM_FOUND, jobs, callN, callNo, spawned, wpc, wn, wcurves, wf>>

\* A worker at the top of its loop: out of curves, or the flag is set
\* (checked under the lock), or on to the next curve.  A worker that
\* returns leaves nothing behind.
WorkerCheck(w) ==
    /\ wpc[w] = "check"
    /\ IF wcurves[w] = 0 \/ Truthy(ECM_FOUND)
         THEN /\ wpc' = [wpc EXCEPT ![w] = "done"]
              /\ wn' = [wn EXCEPT ![w] = None]
              /\ wcurves' = [wcurves EXCEPT ![w] = 0]
         ELSE /\ wpc' = [wpc EXCEPT ![w] = "ecm"]
              /\ UNCHANGED <<wn, wcurves>>
    /\ UNCHANGED <<pureVars, crackVars, ECM_FOUND, jobs, callPc, callN, callNo, callRet, spawned, wf>>

\* A worker runs one curve.
WorkerEcm(w) ==
    /\ wpc[w] = "ecm"
    /\ \E f \in EcmResults(wn[w]) :
        /\ wf' = [wf EXCEPT ![w] = f]
        /\ wpc' = [wpc EXCEPT ![w] = IF f # None /\ 1 < f /\ f < wn[w] THEN "store" ELSE "check"]
    /\ wcurves' = [wcurves EXCEPT ![w] = wcurves[w] - 1]
    /\ UNCHANGED <<pureVars, crackVars, ECM_FOUND, jobs, callPc, callN, callNo, callRet, spawned, wn>>

\* A worker records its factor under the lock and returns ("stored": it
\* left through the return after the store).
WorkerStore(w) ==
    /\ wpc[w] = "store"
    /\ ECM_FOUND' = wf[w]
    /\ wpc' = [wpc EXCEPT ![w] = "stored"]
    /\ wn' = [wn EXCEPT ![w] = None]
    /\ wcurves' = [wcurves EXCEPT ![w] = 0]
    /\ wf' = [wf EXCEPT ![w] = None]
    /\ UNCHANGED <<pureVars, crackVars, jobs, callPc, callN, callNo, callRet, spawned>>

NextEcm ==
    \/ EcmCall
    \/ EcmSpawn
    \/ EcmPollFound
    \/ EcmPollTimeout
    \/ EcmReturn
    \/ \E w \in Workers : WorkerCheck(w)
    \/ \E w \in Workers : WorkerEcm(w)
    \/ \E w \in Workers : WorkerStore(w)

SpecEcm == InitEcm /\ [][NextEcm]_vars

\* C2: a value returned by threaded_ecm(n) is a factor found for that n,
\* never one recorded by a worker of an earlier call for another modulus
\* (the moduli of EcmJobs have no factor in common).
EcmReturnsOwnFactor ==
    (callPc = "idle" /\ callRet # Pending /\ callRet # None) => callN % callRet = 0

\* C18: once a worker of a call has recorded a factor, no worker of that
\* call passes the flag check into another curve.
EcmWorkersStopOnceFound ==
    [][\A w \in Workers :
          (\E v \in Workers : CallOfWorker(v) = CallOfWorker(w) /\ wpc[v] = "stored") =>
              (wpc'[w] = "ecm" => wpc[w] = "ecm")]_vars

\* The caller of threaded_ecm is the running thread and its clock advances:
\* the polling loop ends when the timeout has passed and the bounded joins
\* end.  Nothing is assumed of the workers.
SpecEcmLive == SpecEcm /\ WF_vars(EcmPollTimeout) /\ WF_vars(EcmReturn)

\* C19: a call that has reached its polling loop returns, whatever the
\* workers do, and it returns None when the flag holds no factor.
EcmCallReturns ==
    /\ (callPc = "poll") ~> (callPc = "idle")
    /\ [][(callPc = "join" /\ callPc' = "idle" /\ ECM_FOUND = None) => callRet' = None]_vars

EcmTimedOutEmptyHanded ==
    /\ callPc = "idle"
    /\ callRet = None
    /\ ECM_FOUND = None
    /\ \A w \in Workers : CallOfWorker(w) = callNo => wpc[w] \in {"check", "ecm"} /\ wcurves[w] = EcmCurves

-----------------------------------------------------------------------------
(* Inputs of the factorizer specification: n in 2..FactorMaxN and in       *)
(* FactorDBMinN..FactorDBMinN + FactorDBSpan (the lookup is consulted only *)
(* from FactorDBMinN on), both settings of use_factordb.                   *)

FactorMaxN == 60
FactorDBSpan == 40

FactorInputs ==
    {[n |-> n, use_factordb |-> u] :
        <<n, u>> \in ((2..FactorMaxN) \cup (FactorDBMinN..(FactorDBMinN + FactorDBSpan)))
                     \X BOOLEAN}

\* The draws of k values by random.randrange(lo, hi) that the model
\* explores: all at the low end, all at the high end, and alternating.
RandomDraws(lo, hi, k) ==
    IF lo >= hi - 1 THEN {[i \in 1..k |-> lo]}
    ELSE {[i \in 1..k |-> lo], [i \in 1..k |-> hi - 1],
          [i \in 1..k |-> IF i % 2 = 1 THEN lo + 1 ELSE hi - 1]}

\* What the two threaded_ecm calls on n can return with no worker of an
\* earlier call alive: None, or a factor 1 < f < n found by gmpy2.ecm (the
\* second call is made only when the first returned None).
EcmFreshReturns(n) ==
    {<<None, f>> : f \in {None} \cup Divisors(n)}
    \cup {<<f, None>> : f \in Divisors(n)}

InitFactor ==
    /\ args \in FactorInputs
    /\ ret = Pending
    /\ phase = "call"
    /\ EcmQuiet
    /\ CrackQuiet

RunFactor ==
    /\ phase = "call"
    /\ \E answer \in FactorDBAnswers(args.n),
          seeds \in RandomDraws(2, args.n - 1, RhoSeeds),
          brent \in RandomDraws(1, args.n, 3),
          ecm \in EcmFreshReturns(args.n) :
            ret' = smart_factor_n(args.n, args.use_factordb, answer, seeds, brent,
                                  ecm[1], ecm[2])
    /\ phase' = "done"
    /\ UNCHANGED <<args, ecmVars, crackVars>>

SpecFactor == InitFactor /\ [][RunFactor]_vars

\* C1: for n > 1 a result of smart_factor_n other than (None, None) is a
\* pair with 1 < p <= q and p*q = n, and a prime n gives (None, None).
FactorPairValid ==
    phase = "done" =>
        /\ ret # NotFound =>
              /\ 1 < ret[1]
              /\ ret[1] <= ret[2]
              /\ ret[1] * ret[2] = args.n
        /\ is_prime(args.n) => ret = NotFound

\* C1 without the lookup, on n > 3: the local tiers return valid pairs.
FactorPairValidLocal ==
    (phase = "done" /\ ~args.use_factordb /\ args.n > 3) =>
        /\ ret # NotFound =>
              /\ 1 < ret[1]
              /\ ret[1] <= ret[2]
              /\ ret[1] * ret[2] = args.n
        /\ is_prime(args.n) => ret = NotFound

\* C22: with the lookup enabled and consulted (n >= FactorDBMinN), a pair
\* returned by smart_factor_n multiplies to n, whatever the service
\* answered.
FactorDBPairVerified ==
    (/\ phase = "done"
     /\ args.use_factordb
     /\ args.n >= FactorDBMinN
     /\ ret # NotFound) => ret[1] * ret[2] = args.n

\* C25: a perfect square n = r^2 > 1 gives (r, r), r prime or not, ahead of
\* the division by 2 and 3 and whatever the lookup would answer.
SquareReturnsRootFirst ==
    (phase = "done" /\ isqrt(args.n) * isqrt(args.n) = args.n) =>
        ret = <<isqrt(args.n), isqrt(args.n)>>

\* An even square with a composite root, the lookup enabled and in range.
SquareOfCompositeReturned ==
    /\ phase = "done"
    /\ args.use_factordb
    /\ args.n >= FactorDBMinN
    /\ args.n % 2 = 0
    /\ ~is_prime(ret[1])
    /\ ret[1] > 1
    /\ ret[1] = ret[2]
    /\ ret[1] * ret[1] = args.n

\* A lookup that fails, beside the same run with the lookup disabled: the
\* same n and the same random draws and ECM returns in both.
LookupInputs ==
    UNION {{[n |-> n, failure |-> k, seeds |-> s, brent |-> b, ecm |-> e] :
               <<k, s, b, e>> \in (FactorDBFailures \ {"error"})
                                   \X RandomDraws(2, n - 1, RhoSeeds)
                                   \X RandomDraws(1, n, 3)
                                   \X EcmFreshReturns(n)} :
           n \in (2..FactorMaxN) \cup (FactorDBMinN..(FactorDBMinN + FactorDBSpan))}

InitLookup ==
    /\ args \in LookupInputs
    /\ ret = Pending
    /\ phase = "call"
    /\ EcmQuiet
    /\ CrackQuiet

RunLookupFailed ==
    /\ phase = "call"
    /\ LET answer == [status |-> args.failure, factors |-> <<>>]
       IN  ret' = [lookup |-> factor_from_factordb(args.n, answer),
                   on |-> smart_factor_n(args.n, TRUE, answer, args.seeds, args.brent,
                                         args.ecm[1], args.ecm[2]),
                   off |-> smart_factor_n(args.n, FALSE, answer, args.seeds, args.brent,
                                          args.ecm[1], args.ecm[2])]
    /\ phase' = "failed"
    /\ UNCHANGED <<args, ecmVars, crackVars>>

SpecLookup == InitLookup /\ [][RunLookupFailed]_vars

\* C23: a lookup that fails (missing library, transport error, timeout,
\* malformed reply) returns (None, None) without raising, and
\* smart_factor_n then returns what it returns with the lookup disabled.
LookupFailureIsNoAnswer ==
    phase = "failed" => ret.lookup = NotFound /\ ret.on = ret.off

\* A failed lookup was reached (n is neither a square nor divisible by 2 or
\* 3) and a local tier went on to factor n.
LookupFailedThenLocalTier ==
    /\ phase = "failed"
    /\ args.n >= FactorDBMinN
    /\ isqrt(args.n) * isqrt(args.n) # args.n
    /\ args.n % 2 # 0 /\ args.n % 3 # 0
    /\ ret.on # NotFound
    /\ ret.on[1] * ret.on[2] = args.n

-----------------------------------------------------------------------------
(* rsa_core/attacks.py: low_exponent_attack, double_encryption_attack      *)

LowExpMinE == 3
LowExpMaxE == 100
LowExpMaxK == 1000

\* low_exponent_attack(e, n, c) for c >= 0: the exact e-th root of c, else
\* the root of the first c + k*n, 1 <= k < LowExpMaxK, that is a perfect
\* e-th power.  The code walks k upwards; the model walks the candidate
\* roots r upwards, r^e = c + k*n, which meets the same first hit.
low_exponent_attack(e, n, c) ==
    IF ~validate_rsa_params(e, n) THEN None
    ELSE IF e < LowExpMinE \/ e > LowExpMaxE THEN None
    ELSE IF iroot(c, e)[2] THEN iroot(c, e)[1]
    ELSE LET last == iroot(c + (LowExpMaxK - 1) * n, e)[1]
             hits == {r \in (iroot(c, e)[1] + 1)..last : (IntPow(r, e) - c) % n = 0}
         IN  IF hits = {} THEN None
             ELSE CHOOSE r \in hits : \A j \in hits : r <= j

ManualCap == 500

\* A strategy's outcome when it does not end the function.
Fallthrough == 0 - 4

double_strategy1_SkipsDecrypt(n, e1, e2, c) ==
    LET d_total == wiener_attack(e1 * e2, n)
    IN  IF Truthy(d_total) THEN c ELSE Fallthrough

\* Strategy 1: Wiener on e_total = e1 * e2.
double_strategy1(n, e1, e2, c) ==
    LET d_total == wiener_attack(e1 * e2, n)
    IN  IF Truthy(d_total) THEN pow(c, d_total, n) ELSE Fallthrough

\* Strategy 2: the same search by hand, without the range check on e_total
\* and with the larger cap.
double_strategy2(n, e1, e2, c) ==
    LET d == TestConvergents(e1 * e2, n,
                             convergents(continued_fraction(e1 * e2, n), ManualCap), 1)
    IN  IF d # None THEN pow(c, d, n) ELSE Fallthrough

\* Strategy 3: Wiener on the larger exponent, then Wiener or the
\* low-exponent attack on the other.  Its last return statement names m,
\* which is unbound there: the function raises.
double_strategy3(n, e1, e2, c) ==
    LET huge_exp == IF bit_length(e1) > bit_length(e2) THEN e1 ELSE e2
        small_exp == IF bit_length(e1) > bit_length(e2) THEN e2 ELSE e1
        d_huge == wiener_attack(huge_exp, n)
        intermediate == pow(c, d_huge, n)
        d_small == wiener_attack(small_exp, n)
    IN  IF ~Truthy(d_huge) THEN Fallthrough
        ELSE IF Truthy(d_small) THEN pow(intermediate, d_small, n)
        ELSE IF Truthy(low_exponent_attack(small_exp, n, intermediate)) THEN Raised
        ELSE Fallthrough

\* Strategy 4: Wiener on e1 and on e2, in both orders.
double_strategy4(n, e1, e2, c) ==
    LET d1 == wiener_attack(e1, n)
        d2 == wiener_attack(e2, n)
    IN  IF Truthy(d1) /\ Truthy(d2) THEN pow(pow(c, d1, n), d2, n)
        ELSE IF Truthy(d2) /\ Truthy(d1) THEN pow(pow(c, d2, n), d1, n)
        ELSE Fallthrough

\* Strategy 5 on the pair pq returned by smart_factor_n(n, use_factordb=True);
\* an exception inside it is caught and the function returns None.
double_strategy5(n, e1, e2, c, pq) ==
    IF ~(Truthy(pq[1]) /\ Truthy(pq[2])) THEN None
    ELSE LET phi == (pq[1] - 1) * (pq[2] - 1)
         IN  IF gcd(e1 * e2, phi) = 1 THEN
                 (IF mod_inverse(e1 * e2, phi) = Raised THEN None
                  ELSE pow(c, mod_inverse(e1 * e2, phi), n))
             ELSE IF gcd(e1, phi) = 1 THEN
                 (IF mod_inverse(e1, phi) = Raised THEN None
                  ELSE IF gcd(e2, phi) = 1 THEN
                      (IF mod_inverse(e2, phi) = Raised THEN None
                       ELSE pow(pow(c, mod_inverse(e1, phi), n), mod_inverse(e2, phi), n))
                  ELSE None)
             ELSE None

\* The strategies that need nothing from outside, in order.
double_local(n, e1, e2, c) ==
    IF double_strategy1(n, e1, e2, c) # Fallthrough THEN double_strategy1(n, e1, e2, c)
    ELSE IF double_strategy2(n, e1, e2, c) # Fallthrough THEN double_strategy2(n, e1, e2, c)
    ELSE IF double_strategy3(n, e1, e2, c) # Fallthrough THEN double_strategy3(n, e1, e2, c)
    ELSE double_strategy4(n, e1, e2, c)

\* The strategies whose code double_encryption_attack enters on these
\* inputs, in the order it enters them: each block is reached only by
\* falling out of the block before it.
double_attempted_EntersAll(n, e1, e2, c) == <<1, 2, 3, 4, 5>>

double_attempted(n, e1, e2, c) ==
    IF double_strategy1(n, e1, e2, c) # Fallthrough THEN <<1>>
    ELSE IF double_strategy2(n, e1, e2, c) # Fallthrough THEN <<1, 2>>
    ELSE IF double_strategy3(n, e1, e2, c) # Fallthrough THEN <<1, 2, 3>>
    ELSE IF double_strategy4(n, e1, e2, c) # Fallthrough THEN <<1, 2, 3, 4>>
    ELSE <<1, 2, 3, 4, 5>>

\* What strategy k (1..4) does on its own.
double_strategy(k, n, e1, e2, c) ==
    CASE k = 1 -> double_strategy1(n, e1, e2, c)
      [] k = 2 -> double_strategy2(n, e1, e2, c)
      [] k = 3 -> double_strategy3(n, e1, e2, c)
      [] k = 4 -> double_strategy4(n, e1, e2, c)

\* double_encryption_attack(n, e1, e2, c), pq being what smart_factor_n
\* returns if strategy 5 is reached.
double_encryption_attack(n, e1, e2, c, pq) ==
    IF double_local(n, e1, e2, c) # Fallthrough THEN double_local(n, e1, e2, c)
    ELSE double_strategy5(n, e1, e2, c, pq)

-----------------------------------------------------------------------------
(* Inputs of the double-encryption specification: the weak keys whose      *)
(* public exponent is a product e1 * e2, and the small moduli p*q with     *)
(* p, q <= DoubleMaxP and exponents up to DoubleMaxE; the plaintexts are   *)
(* the lowest and highest DoubleMaxM residues and the multiples of p.      *)

DoubleMaxP == 5
DoubleMaxE == 5
DoubleMaxM == 3

Plaintexts(n, p) ==
    {m \in (0..DoubleMaxM) \cup ((n - DoubleMaxM)..(n - 1))
           \cup {p * j : j \in 1..DoubleMaxM} : m >= 0 /\ m < n}

SmallestDivisor(e) == CHOOSE f \in 2..e : e % f = 0 /\ \A g \in 2..(f - 1) : e % g # 0

\* The layered keys: a weak key's exponent beside a small exponent s that
\* is not its private exponent, in both orders, on plaintexts m with
\* m^s < n; only keys on which the manual search of strategy 2 stays inside
\* the integer range (s * e * n < 2^31).
LayeredMaxE == 5

LayeredInputs ==
    UNION {{[n |-> k[1] * k[2], e1 |-> x[1], e2 |-> x[2], m |-> m,
             weak |-> FALSE, layered |-> TRUE,
             c |-> pow(pow(m, s, k[1] * k[2]), k[4], k[1] * k[2])] :
                x \in {<<k[4], s>>, <<s, k[4]>>},
                m \in {j \in 2..DoubleMaxM : PowLeq(j, s, k[1] * k[2] - 1)}} :
           <<k, s>> \in {y \in WeakKeys \X ((MaxD + 1)..LayeredMaxE) :
                          y[2] * y[1][4] <= 2147483647 \div (y[1][1] * y[1][2])}}

DoubleInputs ==
    UNION {{[n |-> k[1] * k[2], e1 |-> SmallestDivisor(k[4]),
             e2 |-> k[4] \div SmallestDivisor(k[4]),
             m |-> m, weak |-> TRUE, layered |-> FALSE,
             c |-> pow(m, k[4], k[1] * k[2])] :
                m \in Plaintexts(k[1] * k[2], k[1])} :
           k \in {w \in WeakKeys : ~is_prime(w[4])}}
    \cup
    UNION {{[n |-> t[1] * t[2], e1 |-> t[3], e2 |-> t[4], m |-> m,
             weak |-> FALSE, layered |-> FALSE,
             c |-> pow(m, t[3] * t[4], t[1] * t[2])] :
                m \in Plaintexts(t[1] * t[2], t[1])} :
           t \in {u \in (2..DoubleMaxP) \X (2..DoubleMaxP) \X (2..DoubleMaxE) \X (2..DoubleMaxE) :
                    is_prime(u[1]) /\ is_prime(u[2]) /\ u[1] <= u[2]}}
    \cup LayeredInputs

InitDouble ==
    /\ args \in DoubleInputs
    /\ ret = Pending
    /\ phase = "call"
    /\ EcmQuiet
    /\ CrackQuiet

RunDouble ==
    /\ phase = "call"
    /\ LET local == double_local(args.n, args.e1, args.e2, args.c)
       IN  IF local # Fallthrough THEN ret' = local
           ELSE \E answer \in FactorDBAnswers(args.n),
                   seeds \in RandomDraws(2, args.n - 1, RhoSeeds),
                   brent \in RandomDraws(1, args.n, 3),
                   ecm \in EcmFreshReturns(args.n) :
                     ret' = double_strategy5(args.n, args.e1, args.e2, args.c,
                               smart_factor_n(args.n, TRUE, answer, seeds, brent,
                                              ecm[1], ecm[2]))
    /\ phase' = "done"
    /\ UNCHANGED <<args, ecmVars, crackVars>>

SpecDouble == InitDouble /\ [][RunDouble]_vars

\* C10: for n = p*q with distinct primes and e1*e2 the inverse of a
\* Wiener-recoverable d_total, double_encryption_attack(n, e1, e2,
\* m^(e1*e2) mod n) returns m.
DoubleRecoversMessage ==
    (phase = "done" /\ args.weak) => ret = args.m

DoubleRanOnWeakKey ==
    phase = "done" /\ args.weak /\ args.m > 1 /\ args.c # args.m /\ ret = args.m

\* The case of strategy 3 that C11 is about: strategies 1 and 2 fail, Wiener
\* recovers d for the larger exponent and fails on the other, and the
\* low-exponent attack finds a root of the intermediate ciphertext.
Strategy3Root(n, e1, e2, c) ==
    LET huge_exp == IF bit_length(e1) > bit_length(e2) THEN e1 ELSE e2
        small_exp == IF bit_length(e1) > bit_length(e2) THEN e2 ELSE e1
        d_huge == wiener_attack(huge_exp, n)
    IN  IF /\ double_strategy1(n, e1, e2, c) = Fallthrough
           /\ double_strategy2(n, e1, e2, c) = Fallthrough
           /\ Truthy(d_huge)
           /\ ~Truthy(wiener_attack(small_exp, n))
        THEN low_exponent_attack(small_exp, n, pow(c, d_huge, n))
        ELSE None

\* C11: in that case double_encryption_attack returns the recovered root.
DoubleLayeredReturnsRoot ==
    (phase = "done" /\ Truthy(Strategy3Root(args.n, args.e1, args.e2, args.c))) =>
        ret = Strategy3Root(args.n, args.e1, args.e2, args.c)

\* The order of the multiplicative group modulo n = p * q, p and q prime.
GroupOrder(n) ==
    LET p == SmallestDivisor(n)
        q == n \div SmallestDivisor(n)
    IN  IF p = q THEN p * (p - 1) ELSE (p - 1) * (q - 1)

\* C12: when the factorization fallback is reached on a plaintext coprime to
\* n, whatever it returns is the plaintext, and it returns None when an
\* exponent is not invertible modulo the group order.
DoubleFallbackSound ==
    (/\ phase = "done"
     /\ gcd(args.m, args.n) = 1
     /\ double_local(args.n, args.e1, args.e2, args.c) = Fallthrough) =>
        /\ ret \in {None, args.m}
        /\ gcd(args.e1 * args.e2, GroupOrder(args.n)) # 1 => ret = None

-----------------------------------------------------------------------------
(* rsa_core/decrypt.py, rsa_core/compute_d.py, massive_rsa_attack          *)

rsa_decrypt(c, d, n) == pow(c, d, n)

rsa_crt_decrypt_NoGcdCheck(c, p, q, dp, dq) ==
    LET m1 == pow(c, dp, p)
        m2 == pow(c, dq, q)
    IN  m2 + (((egcd(q, p)[2] % p) * (m1 - m2)) % p) * q

\* rsa_crt_decrypt(c, p, q, dp, dq); its local mod_inverse raises when q has
\* no inverse modulo p.
rsa_crt_decrypt(c, p, q, dp, dq) ==
    LET m1 == pow(c, dp, p)
        m2 == pow(c, dq, q)
        g == egcd(q, p)
    IN  IF g[1] # 1 THEN Raised
        ELSE m2 + (((g[2] % p) * (m1 - m2)) % p) * q

compute_d_NoSquareCase(p, q, e) == mod_inverse(e, (p - 1) * (q - 1))

compute_d(p, q, e) ==
    mod_inverse(e, IF p = q THEN p * (p - 1) ELSE (p - 1) * (q - 1))

\* massive_rsa_attack(n, e, c): decryption modulo a prime n; any exception
\* inside is caught and None is returned.
massive_rsa_attack(n, e, c) ==
    IF ~is_prime(n) THEN None
    ELSE IF gcd(e, n - 1) # 1 THEN None
    ELSE IF mod_inverse(e, n - 1) = Raised THEN None
    ELSE pow(c, mod_inverse(e, n - 1), n)

-----------------------------------------------------------------------------
(* gui/app.py: start_crack, clear_all and crack_thread.  The GUI thread    *)
(* runs one callback at a time; crack threads run beside it, so clear_all  *)
(* is split at its writes of stop_flag.  The timer thread and the log      *)
(* window change nothing the attempts read and are left out.               *)

HastadGateE == 100
MinCiphertexts == 3
LowExpGateE == 100

\* start_crack: the button is clickable only in state "normal".
start_crack ==
    /\ main_pc = "idle"
    /\ btn_crack = "normal"
    /\ \E t \in Attempts :
          /\ crack_pc[t] = "unborn"
          /\ \A u \in Attempts : u < t => crack_pc[u] # "unborn"
          /\ IF stop_flag
             THEN UNCHANGED <<stop_flag, btn_crack, crack_pc>>
             ELSE /\ stop_flag' = FALSE
                  /\ btn_crack' = "disabled"
                  /\ crack_pc' = [crack_pc EXCEPT ![t] = "collect"]
    /\ UNCHANGED <<pureVars, ecmVars, entries, results_history, main_pc, after_queue,
                   collect_i, params, crack_m, started>>

\* clear_all, line 567: the cancellation signal is raised.
clear_all_begin ==
    /\ main_pc = "idle"
    /\ stop_flag' = TRUE
    /\ main_pc' = "clearing"
    /\ UNCHANGED <<pureVars, ecmVars, btn_crack, entries, results_history, after_queue,
                   crack_pc, collect_i, params, crack_m, started>>

\* clear_all, lines 569-588: fields emptied, button re-enabled, signal lowered.
clear_all_end ==
    /\ main_pc = "clearing"
    /\ entries' = NoEntries
    /\ btn_crack' = "normal"
    /\ stop_flag' = FALSE
    /\ main_pc' = "idle"
    /\ UNCHANGED <<pureVars, ecmVars, results_history, after_queue,
                   crack_pc, collect_i, params, crack_m, started>>

\* The callback posted by the finally block of crack_thread.
after_callback ==
    /\ main_pc = "idle"
    /\ after_queue > 0
    /\ after_queue' = after_queue - 1
    /\ btn_crack' = "normal"
    /\ UNCHANGED <<pureVars, ecmVars, stop_flag, entries, results_history, main_pc,
                   crack_pc, collect_i, params, crack_m, started>>

\* crack_thread, lines 633-665: one field is read per step (each read is a
\* call into the GUI thread, served between its callbacks).
crack_collect(t) ==
    /\ crack_pc[t] = "collect"
    /\ main_pc = "idle"
    /\ params' = [params EXCEPT ![t][param_keys[collect_i[t]]] =
                                    entries[param_keys[collect_i[t]]]]
    /\ IF collect_i[t] = Len(param_keys)
       THEN /\ crack_pc' = [crack_pc EXCEPT ![t] = "hastad"]
            /\ crack_m' = [crack_m EXCEPT ![t] = None]
            /\ UNCHANGED collect_i
       ELSE /\ collect_i' = [collect_i EXCEPT ![t] = @ + 1]
            /\ UNCHANGED <<crack_pc, crack_m>>
    /\ UNCHANGED <<pureVars, ecmVars, stop_flag, btn_crack, entries, results_history,
                   main_pc, after_queue, started>>

\* One attack boundary of crack_thread: if the guard holds the attack is
\* called; new_m is the value of m after it, or Raised if it raised.
crack_step(t, here, next, guard, new_m) ==
    /\ crack_pc[t] = here
    /\ IF guard
       THEN /\ started' = [started EXCEPT ![t] = Append(@, here)]
            /\ IF new_m = Raised
               THEN /\ crack_pc' = [crack_pc EXCEPT ![t] = "except"]
                    /\ UNCHANGED crack_m
               ELSE /\ crack_pc' = [crack_pc EXCEPT ![t] = next]
                    /\ crack_m' = [crack_m EXCEPT ![t] = new_m]
       ELSE /\ crack_pc' = [crack_pc EXCEPT ![t] = next]
            /\ UNCHANGED <<started, crack_m>>
    /\ UNCHANGED <<pureVars, ecmVars, stop_flag, btn_crack, entries, results_history,
                   main_pc, after_queue, collect_i, params>>

\* m after "if r: m = r".
Adopt(t, r) == IF r = Raised THEN Raised ELSE IF Truthy(r) THEN r ELSE crack_m[t]

\* The guard of step 5, lines 720, 725, 733, 741.
FactorizationGate(t) ==
    /\ ~Truthy(crack_m[t])
    /\ Truthy(params[t].n) /\ Truthy(params[t].e) /\ Truthy(params[t].c)
    /\ ~Truthy(params[t].p) /\ ~Truthy(params[t].q)

\* The arguments of the call at line 681, hastad_broadcast_attack(e,
\* ciphertexts): the ciphertext fields that are filled in, and no moduli.
hastad_call(P) ==
    [e |-> P.e,
     ciphertexts |-> SelectSeq(<<P.c, P.c1, P.c2, P.c3>>, LAMBDA x : x # None),
     moduli |-> <<>>,
     has_moduli |-> FALSE]

\* Step 1, lines 670-684: the call passes no moduli.
crack_hastad(t) ==
    LET P == params[t]
        call == hastad_call(P)
    IN  crack_step(t, "hastad", "double",
            /\ ~Truthy(crack_m[t]) /\ P.e # None /\ P.e <= HastadGateE
            /\ Len(call.ciphertexts) >= MinCiphertexts,
            Adopt(t, hastad_broadcast_attack(call.e, call.ciphertexts, call.moduli,
                                             call.has_moduli)))

\* Step 2, lines 687-695.
crack_double(t) ==
    LET P == params[t]
        gate == /\ ~Truthy(crack_m[t])
                /\ Truthy(P.n) /\ Truthy(P.e1) /\ Truthy(P.e2) /\ Truthy(P.c)
    IN  IF ~gate THEN crack_step(t, "double", "crt", FALSE, None)
        ELSE \E answer \in FactorDBAnswers(P.n),
                seeds \in RandomDraws(2, P.n - 1, RhoSeeds),
                brent \in RandomDraws(1, P.n, 3),
                ecm \in EcmFreshReturns(P.n) :
                 crack_step(t, "double", "crt", TRUE,
                     Adopt(t, double_encryption_attack(P.n, P.e1, P.e2, P.c,
                                  smart_factor_n(P.n, TRUE, answer, seeds, brent,
                                                 ecm[1], ecm[2]))))

\* Step 3, lines 698-706.
crack_crt(t) ==
    LET P == params[t]
    IN  crack_step(t, "crt", "standard",
            /\ ~Truthy(crack_m[t])
            /\ Truthy(P.c) /\ Truthy(P.p) /\ Truthy(P.q) /\ Truthy(P.dp) /\ Truthy(P.dq),
            Adopt(t, rsa_crt_decrypt(P.c, P.p, P.q, P.dp, P.dq)))

\* Step 4, lines 709-717.
crack_standard(t) ==
    LET P == params[t]
    IN  crack_step(t, "standard", "lowexp",
            ~Truthy(crack_m[t]) /\ Truthy(P.c) /\ Truthy(P.d) /\ Truthy(P.n),
            Adopt(t, rsa_decrypt(P.c, P.d, P.n)))

\* Step 5, lines 725-730.
crack_lowexp(t) ==
    LET P == params[t]
    IN  crack_step(t, "lowexp", "wiener",
            FactorizationGate(t) /\ P.e <= LowExpGateE,
            Adopt(t, low_exponent_attack(P.e, P.n, P.c)))

\* Step 5, lines 733-738: m is assigned whatever rsa_decrypt returns.
crack_wiener(t) ==
    LET P == params[t]
        d_wiener == wiener_attack(P.e, P.n)
    IN  crack_step(t, "wiener", "factor",
            FactorizationGate(t),
            IF Truthy(d_wiener) THEN rsa_decrypt(P.c, d_wiener, P.n) ELSE crack_m[t])

\* Lines 743-751: m after the pair found came back from smart_factor_n,
\* m_before being m until then; Raised if compute_d raises.
factor_step(n, e, c, found, m_before) ==
    IF Truthy(found[1]) /\ Truthy(found[2])
    THEN (IF compute_d(found[1], found[2], e) = Raised THEN Raised
          ELSE rsa_decrypt(c, compute_d(found[1], found[2], e), n))
    ELSE m_before

\* Step 5, lines 741-751: compute_d may raise; m is assigned unguarded.
crack_factor(t) ==
    LET P == params[t]
        gate == FactorizationGate(t) /\ bit_length(P.n) <= MaxBits
    IN  IF ~gate THEN crack_step(t, "factor", "massive", FALSE, None)
        ELSE \E answer \in FactorDBAnswers(P.n),
                seeds \in RandomDraws(2, P.n - 1, RhoSeeds),
                brent \in RandomDraws(1, P.n, 3),
                ecm \in EcmFreshReturns(P.n) :
                 crack_step(t, "factor", "massive", TRUE,
                     factor_step(P.n, P.e, P.c,
                                 smart_factor_n(P.n, TRUE, answer, seeds, brent,
                                                ecm[1], ecm[2]),
                                 crack_m[t]))

\* Step 6, lines 754-759.
crack_massive(t) ==
    LET P == params[t]
    IN  crack_step(t, "massive", "display",
            ~Truthy(crack_m[t]) /\ Truthy(P.n) /\ Truthy(P.e) /\ Truthy(P.c),
            Adopt(t, massive_rsa_attack(P.n, P.e, P.c)))

\* Lines 762-804: a result other than None is reported and recorded.
crack_display(t) ==
    /\ crack_pc[t] = "display"
    /\ results_history' = IF crack_m[t] # None THEN Append(results_history, crack_m[t])
                          ELSE results_history
    /\ crack_pc' = [crack_pc EXCEPT ![t] = "finally"]
    /\ UNCHANGED <<pureVars, ecmVars, stop_flag, btn_crack, entries, main_pc, after_queue,
                   collect_i, params, crack_m, started>>

\* Lines 806-808: any exception of the attempt ends it here.
crack_except(t) ==
    /\ crack_pc[t] = "except"
    /\ crack_pc' = [crack_pc EXCEPT ![t] = "finally"]
    /\ UNCHANGED <<pureVars, ecmVars, stop_flag, btn_crack, entries, results_history,
                   main_pc, after_queue, collect_i, params, crack_m, started>>

\* Lines 810-816.
crack_finally(t) ==
    /\ crack_pc[t] = "finally"
    /\ after_queue' = IF stop_flag THEN after_queue ELSE after_queue + 1
    /\ crack_pc' = [crack_pc EXCEPT ![t] = "done"]
    /\ UNCHANGED <<pureVars, ecmVars, stop_flag, btn_crack, entries, results_history,
                   main_pc, collect_i, params, crack_m, started>>

-----------------------------------------------------------------------------
(* Inputs of the orchestrator specification: what the user has typed       *)
(* before the first click.  Primes up to CrackMaxP, moduli their products  *)
(* and the primes up to CrackMaxN, exponents up to CrackMaxE; ciphertexts  *)
(* are encryptions of CrackPlain, or the modulus itself (a nonzero field   *)
(* whose plaintext is 0).                                                  *)

CrackMaxP == 3
CrackMaxN == 5
CrackMaxE == 5
CrackPlain == 2

Fields(f) == [k \in Keys |-> IF k \in DOMAIN f THEN f[k] ELSE None]

CrackPrimes == {p \in 2..CrackMaxP : is_prime(p)}
CrackModuli ==
    {p * q : p \in CrackPrimes, q \in CrackPrimes} \cup {n \in 2..CrackMaxN : is_prime(n)}
CrackCiphertexts(e, n) == {c \in {pow(CrackPlain, e, n), n} : c # 0}

\* n, e, c alone.
PublicKeyInputs ==
    UNION {{Fields([n |-> n, e |-> e, c |-> c]) : c \in CrackCiphertexts(e, n)} :
             <<n, e>> \in CrackModuli \X (2..CrackMaxE)}

\* p, q, e, c alone: distinct primes and an invertible e.
FactorsInputs ==
    UNION {{Fields([p |-> t[1], q |-> t[2], e |-> t[3], c |-> c]) :
                c \in CrackCiphertexts(t[3], t[1] * t[2])} :
             t \in {u \in CrackPrimes \X CrackPrimes \X (2..CrackMaxE) :
                      u[1] < u[2] /\ gcd(u[3], (u[1] - 1) * (u[2] - 1)) = 1}}

\* c, p, q, dp, dq, with or without d and n.
CrtInputs ==
    UNION {{Fields([c |-> CrackPlain, p |-> t[1], q |-> t[2], dp |-> t[3], dq |-> t[3]]),
            Fields([c |-> CrackPlain, p |-> t[1], q |-> t[2], dp |-> t[3], dq |-> t[3],
                    d |-> t[3], n |-> t[1] * t[2]])} :
             t \in CrackPrimes \X CrackPrimes \X {1, 3}}

\* c, d, n.
PrivateKeyInputs ==
    UNION {{Fields([n |-> n, d |-> 3, c |-> c]) : c \in CrackCiphertexts(3, n)} :
             n \in CrackModuli}

\* n, e1, e2, c.
DoubleKeyInputs ==
    {Fields([n |-> t[1] * t[2], e1 |-> t[3], e2 |-> t[4], c |-> CrackPlain]) :
        t \in {u \in CrackPrimes \X CrackPrimes \X {3, 5} \X {3, 5} : u[1] < u[2]}}

\* e and three ciphertexts of the same message, with or without n.
BroadcastInputs ==
    {Fields([e |-> 3, c |-> 8, c1 |-> 8, c2 |-> 8]),
     Fields([e |-> 3, c |-> 8, c1 |-> 8, c2 |-> 8, n |-> 9])}

CrackInputs ==
    PublicKeyInputs \cup FactorsInputs \cup CrtInputs \cup PrivateKeyInputs
        \cup DoubleKeyInputs \cup BroadcastInputs

InitCrack ==
    /\ args = None /\ ret = Pending /\ phase = "crack"
    /\ EcmQuiet
    /\ stop_flag = FALSE
    /\ btn_crack = "normal"
    /\ entries \in CrackInputs
    /\ results_history = <<>>
    /\ main_pc = "idle"
    /\ after_queue = 0
    /\ crack_pc = [t \in Attempts |-> "unborn"]
    /\ collect_i = [t \in Attempts |-> 1]
    /\ params = [t \in Attempts |-> NoEntries]
    /\ crack_m = [t \in Attempts |-> None]
    /\ started = [t \in Attempts |-> <<>>]

NextCrack ==
    \/ start_crack
    \/ clear_all_begin
    \/ clear_all_end
    \/ after_callback
    \/ \E t \in Attempts : crack_collect(t)
    \/ \E t \in Attempts : crack_hastad(t)
    \/ \E t \in Attempts : crack_double(t)
    \/ \E t \in Attempts : crack_crt(t)
    \/ \E t \in Attempts : crack_standard(t)
    \/ \E t \in Attempts : crack_lowexp(t)
    \/ \E t \in Attempts : crack_wiener(t)
    \/ \E t \in Attempts : crack_factor(t)
    \/ \E t \in Attempts : crack_massive(t)
    \/ \E t \in Attempts : crack_display(t)
    \/ \E t \in Attempts : crack_except(t)
    \/ \E t \in Attempts : crack_finally(t)

SpecCrack == InitCrack /\ [][NextCrack]_vars

\* C5: once an attack of crack_thread has produced a plaintext (its m is no
\* longer None), that thread starts no later attack.
CrackStopsAtFirstPlaintext ==
    [][\A t \in Attempts : crack_m[t] # None => started'[t] = started[t]]_vars

\* C6: an attempt given only p, q, e and c (distinct primes, e invertible)
\* ends with the plaintext c^d mod p*q reported.
CrackDerivesKeyFromFactors ==
    \A t \in Attempts :
        (/\ crack_pc[t] = "done"
         /\ params[t] \in FactorsInputs) =>
            \E i \in 1..Len(results_history) :
                results_history[i] =
                    pow(params[t].c,
                        mod_inverse(params[t].e, (params[t].p - 1) * (params[t].q - 1)),
                        params[t].p * params[t].q)

\* C7: while the cancellation signal is raised, no crack_thread starts an
\* attack.
CrackHonorsStopFlag ==
    [][stop_flag => started' = started]_vars

\* C8: an attempt that ends without a plaintext has called the
\* prime-modulus attack whenever n, e and c were given, whatever the
\* earlier attacks did.
CrackCascadesPastFailure ==
    \A t \in Attempts :
        (/\ crack_pc[t] = "done"
         /\ crack_m[t] = None
         /\ params[t].n # None /\ params[t].e # None /\ params[t].c # None) =>
            \E i \in 1..Len(started[t]) : started[t][i] = "massive"

\* C29: at most one crack_thread is running at any time (started by
\* start_crack and not yet through its finally block).
OneAttemptAtATime ==
    Cardinality({t \in Attempts : crack_pc[t] \notin {"unborn", "done"}}) <= 1

\* C30: when crack_thread has made its Hastad call with e <= 100 and at
\* least e (and at least 3) ciphertexts, the call went on to the CRT and
\* root stage of hastad_broadcast_attack.
CrackHastadReachesCrt ==
    \A t \in Attempts :
        (/\ \E i \in 1..Len(started[t]) : started[t][i] = "hastad"
         /\ params[t].e <= HastadGateE
         /\ Len(hastad_call(params[t]).ciphertexts) >= params[t].e) =>
            LET call == hastad_call(params[t])
            IN  hastad_stage(call.e, call.ciphertexts, call.moduli, call.has_moduli) = "crt"

-----------------------------------------------------------------------------
(* Key arithmetic: rsa_crt_decrypt against rsa_decrypt, and compute_d.     *)
(* The keys are all pairs of primes p, q <= KeyMaxP (equal ones included), *)
(* exponents e <= KeyMaxE and every plaintext m < p*q.                     *)

KeyMaxP == 7
KeyMaxE == 7

\* The inverse of e modulo phi as a number, None where there is none.
InverseMod(e, phi) ==
    IF \E x \in 0..(phi - 1) : (e * x) % phi = 1 % phi
    THEN CHOOSE x \in 0..(phi - 1) : (e * x) % phi = 1 % phi
    ELSE None

KeyPairs ==
    {k \in (2..KeyMaxP) \X (2..KeyMaxP) : is_prime(k[1]) /\ is_prime(k[2])}

\* The callers of rsa_crt_decrypt hold a key: e is invertible modulo
\* (p-1)(q-1), d is its inverse, dp = d mod (p-1) and dq = d mod (q-1).
CrtKeyInputs ==
    UNION {{[op |-> "crt", p |-> k[1], q |-> k[2], e |-> e, m |-> m,
             d |-> InverseMod(e, (k[1] - 1) * (k[2] - 1))] :
                m \in 0..(k[1] * k[2] - 1)} :
           <<k, e>> \in {y \in KeyPairs \X (1..KeyMaxE) :
                          InverseMod(y[2], (y[1][1] - 1) * (y[1][2] - 1)) # None}}

ComputeDInputs ==
    UNION {{[op |-> "compute_d", p |-> k[1], q |-> k[2], e |-> e, m |-> m,
             d |-> None] :
                m \in 0..(k[1] * k[2] - 1)} :
           <<k, e>> \in KeyPairs \X (1..KeyMaxE)}

\* rsa_crt_decrypt on any positive p, q <= CrtMaxP, prime or not, coprime
\* or not, with any c <= CrtMaxC and reduced exponents up to CrtMaxD.
CrtMaxP == 6
CrtMaxC == 5
CrtMaxD == 2

CrtRawInputs ==
    {[op |-> "crt_raw", p |-> t[1], q |-> t[2], c |-> t[3], dp |-> t[4], dq |-> t[5]] :
        t \in (1..CrtMaxP) \X (1..CrtMaxP) \X (0..CrtMaxC) \X (0..CrtMaxD) \X (0..CrtMaxD)}

InitKeys ==
    /\ args \in CrtKeyInputs \cup ComputeDInputs \cup CrtRawInputs
    /\ ret = Pending
    /\ phase = "call"
    /\ EcmQuiet
    /\ CrackQuiet

\* c = m^e mod p*q, decrypted by rsa_crt_decrypt and by rsa_decrypt.
RunCrtDecrypt ==
    /\ phase = "call"
    /\ args.op = "crt"
    /\ LET n == args.p * args.q
           c == pow(args.m, args.e, n)
       IN  ret' = [crt |-> rsa_crt_decrypt(c, args.p, args.q,
                                           args.d % (args.p - 1), args.d % (args.q - 1)),
                   plain |-> rsa_decrypt(c, args.d, n)]
    /\ phase' = "crt"
    /\ UNCHANGED <<args, ecmVars, crackVars>>

\* d = compute_d(p, q, e), then pow(pow(m, e, n), d, n) if it returned.
RunComputeD ==
    /\ phase = "call"
    /\ args.op = "compute_d"
    /\ LET n == args.p * args.q
           d == compute_d(args.p, args.q, args.e)
       IN  ret' = [d |-> d,
                   plain |-> IF d = Raised THEN Raised
                             ELSE pow(pow(args.m, args.e, n), d, n)]
    /\ phase' = "computed"
    /\ UNCHANGED <<args, ecmVars, crackVars>>

\* rsa_crt_decrypt(c, p, q, dp, dq) as given.
RunCrtRaw ==
    /\ phase = "call"
    /\ args.op = "crt_raw"
    /\ ret' = rsa_crt_decrypt(args.c, args.p, args.q, args.dp, args.dq)
    /\ phase' = "crt_raw"
    /\ UNCHANGED <<args, ecmVars, crackVars>>

NextKeys == RunCrtDecrypt \/ RunComputeD \/ RunCrtRaw

SpecKeys == InitKeys /\ [][NextKeys]_vars

\* C14: for distinct primes p, q and a key e, d of p*q, rsa_crt_decrypt
\* returns the plaintext m for every m < p*q, the same value as rsa_decrypt.
CrtRoundTrip ==
    (phase = "crt" /\ args.p # args.q) =>
        /\ ret.crt = args.m
        /\ ret.crt = ret.plain

\* C16: for primes p # q and e coprime to (p-1)(q-1), decrypting m^e with
\* d = compute_d(p, q, e) gives m back; and compute_d is the inverse of e
\* modulo p*(p-1) when p = q and modulo (p-1)*(q-1) otherwise (a ValueError
\* where there is no inverse).
ComputeDRoundTrip ==
    phase = "computed" =>
        LET phi == IF args.p = args.q THEN args.p * (args.p - 1)
                   ELSE (args.p - 1) * (args.q - 1)
        IN  /\ ret.d = (IF InverseMod(args.e, phi) = None THEN Raised
                        ELSE InverseMod(args.e, phi))
            /\ (args.p # args.q /\ gcd(args.e, phi) = 1) => ret.plain = args.m

ComputeDRecovered ==
    /\ phase = "computed"
    /\ args.p # args.q
    /\ args.e > 1 /\ ret.d > 1 /\ args.m > 1
    /\ args.m % args.p = 0
    /\ ret.plain = args.m

\* C21: rsa_crt_decrypt raises ValueError whenever p and q share a factor
\* (p = q included) and otherwise returns a value m with 0 <= m < p*q.
CrtRejectsSharedFactor ==
    phase = "crt_raw" =>
        IF gcd(args.p, args.q) # 1 THEN ret = Raised
        ELSE ret \in 0..(args.p * args.q - 1)

CrtRefusedEqualPrimes ==
    /\ phase = "crt_raw"
    /\ args.p = args.q /\ args.p > 2
    /\ args.c > 1 /\ args.dp > 0
    /\ ret = Raised

-----------------------------------------------------------------------------
(* mod_inverse on every pair of integers a, m with |a| <= InvMaxA and      *)
(* |m| <= InvMaxM.                                                         *)

InvMaxA == 12
InvMaxM == 8

InverseInputs ==
    {[a |-> a, m |-> m] : a \in (0 - InvMaxA)..InvMaxA, m \in (0 - InvMaxM)..InvMaxM}

InitInverse ==
    /\ args \in InverseInputs
    /\ ret = Pending
    /\ phase = "call"
    /\ EcmQuiet
    /\ CrackQuiet

RunModInverse ==
    /\ phase = "call"
    /\ ret' = mod_inverse(args.a, args.m)
    /\ phase' = "inverted"
    /\ UNCHANGED <<args, ecmVars, crackVars>>

SpecInverse == InitInverse /\ [][RunModInverse]_vars

\* C15: for m > 0 and gcd(a, m) = 1, whatever the sign or size of a,
\* mod_inverse returns x in [0, m) with a*x = 1 (mod m); in every other
\* case it raises ValueError.
ModInverseTotal ==
    phase = "inverted" =>
        IF args.m > 0 /\ gcd(Abs(args.a), args.m) = 1
        THEN /\ ret \in 0..(args.m - 1)
             /\ (args.a * ret) % args.m = 1 % args.m
        ELSE ret = Raised

-----------------------------------------------------------------------------
(* Two runs of smart_factor_n(n, use_factordb=False) on the same n.  The   *)
(* rho tiers see a composite n only above TrialBits bits, so beside the    *)
(* small n the inputs hold one squarefree number of that size, BigN, the   *)
(* product of the primes 5..BigPrimeMax.  A residue x modulo BigN is kept  *)
(* as the function p |-> x mod p on its primes, and a divisor of BigN as   *)
(* the set of its primes: gcd(|x - y|, BigN) is the product of the primes  *)
(* on which x and y agree.                                                 *)

BigPrimeMax == 97
RerunMaxN == 40
RerunMaxSeed == 13

BigPrimes == {p \in 5..BigPrimeMax : is_prime(p)}

RECURSIVE SumOver(_, _)
SumOver(S, weight) ==
    IF S = {} THEN 0
    ELSE LET p == CHOOSE x \in S : TRUE
         IN  weight[p] + SumOver(S \ {p}, weight)

\* BigN.bit_length() lies between these two numbers.
BigBitsAtLeast == SumOver(BigPrimes, [p \in BigPrimes |-> bit_length(p) - 1]) + 1

BigBitsAtMost == SumOver(BigPrimes, [p \in BigPrimes |-> bit_length(p)])

BigResidues(x) == [p \in BigPrimes |-> x % p]

\* f(x) = (x * x + 1) % n
BigRhoF(x) == [p \in BigPrimes |-> (x[p] * x[p] + 1) % p]

\* math.gcd(abs(x - y), n), as the set of its primes ({} is d = 1).
BigGcd(x, y) == {p \in BigPrimes : x[p] = y[p]}

RECURSIVE BigRhoLoop(_, _, _)
\* The while loop of one seed; its value is the final d.
BigRhoLoop(x, y, limit) ==
    IF limit = 0 THEN {}
    ELSE LET x2 == BigRhoF(x)
             y2 == BigRhoF(BigRhoF(y))
             d2 == BigGcd(x2, y2)
         IN  IF d2 # {} THEN d2 ELSE BigRhoLoop(x2, y2, limit - 1)

RECURSIVE BigRhoSeedLoop(_, _)
\* The factor returned, {} for None.
BigRhoSeedLoop(seeds, i) ==
    IF i > RhoSeeds THEN {}
    ELSE LET d == BigRhoLoop(BigResidues(seeds[i]), BigResidues(seeds[i]),
                             RhoIterationLimit)
         IN  IF d # {} /\ d # BigPrimes THEN d ELSE BigRhoSeedLoop(seeds, i + 1)

\* pollard_rho(BigN) with seeds[i] the i-th value drawn by random.randrange.
big_pollard_rho(seeds) ==
    IF 2 \in BigPrimes THEN {2}
    ELSE IF 3 \in BigPrimes THEN {3}
    ELSE BigRhoSeedLoop(seeds, 1)

\* A pair (min(f, n // f), max(f, n // f)) of divisors of BigN, as the set
\* of the two sets of primes; {} is (None, None).
BigPair(f) == {f, BigPrimes \ f}

\* smart_factor_n(BigN, use_factordb=False): BigN is no square and has no
\* factor 2 or 3, the lookup is off and trial division is skipped above
\* TrialBits; later being what the tiers after pollard_rho give.
big_smart_factor_n(seeds, later) ==
    IF BigBitsAtLeast > TrialBits /\ BigBitsAtMost <= RhoBits
          /\ big_pollard_rho(seeds) # {}
    THEN BigPair(big_pollard_rho(seeds))
    ELSE later

\* What pollard_rho_brent and the ECM tiers can give on BigN.
BigLaterReturns == {{}} \cup {BigPair({p}) : p \in BigPrimes}

\* The seeds drawn in one call of pollard_rho(BigN): RhoSeeds consecutive
\* values from any start in 2..RerunMaxSeed.
BigSeedDraws == {[i \in 1..RhoSeeds |-> s + i - 1] : s \in 2..RerunMaxSeed}

RerunInputs ==
    {[big |-> FALSE, n |-> n] : n \in 2..RerunMaxN} \cup {[big |-> TRUE, n |-> None]}

\* The outcomes of one run on the input.
RerunOutcomes(a) ==
    IF a.big
    THEN {big_smart_factor_n(seeds, later) :
              <<seeds, later>> \in BigSeedDraws \X BigLaterReturns}
    ELSE {smart_factor_n(a.n, FALSE, None, seeds, brent, ecm[1], ecm[2]) :
              <<seeds, brent, ecm>> \in RandomDraws(2, a.n - 1, RhoSeeds)
                                         \X RandomDraws(1, a.n, 3)
                                         \X EcmFreshReturns(a.n)}

InitRerun ==
    /\ args \in RerunInputs
    /\ ret = <<>>
    /\ phase = "call"
    /\ EcmQuiet
    /\ CrackQuiet

RunFirst ==
    /\ phase = "call"
    /\ \E r \in RerunOutcomes(args) : ret' = <<r>>
    /\ phase' = "first"
    /\ UNCHANGED <<args, ecmVars, crackVars>>

RunSecond ==
    /\ phase = "first"
    /\ \E r \in RerunOutcomes(args) : ret' = Append(ret, r)
    /\ phase' = "second"
    /\ UNCHANGED <<args, ecmVars, crackVars>>

NextRerun == RunFirst \/ RunSecond

SpecRerun == InitRerun /\ [][NextRerun]_vars

\* C17: two runs of smart_factor_n without the lookup on the same n end
\* with the same result, whatever the seeds and the ECM returns.
RerunSameOutcome ==
    phase = "second" => ret[1] = ret[2]


-----------------------------------------------------------------------------
(* smart_factor_n around the 4096-bit cutoff.  Such n are kept in the form *)
(* n = m * 2^shift + odd with small m and odd in {0, 1}; for shift >= 2    *)
(* and m + 1 < 2^(shift - 2):                                              *)
(*   n.bit_length() = shift + m.bit_length();                              *)
(*   with odd = 0, n is even, and a square iff shift is even and m is a    *)
(*   square, or shift is odd and 2m is a square;                           *)
(*   with odd = 1, n is odd and no square (t^2 - 1 = 4x(x + 1) with x and  *)
(*   x + 1 coprime, so one of them would divide m), and n mod 3 follows    *)
(*   from 2^shift mod 3.                                                   *)

HugeMaxM == 8
HugeMinShift == 4090
HugeMaxShift == 4097

HugeInputs ==
    {[m |-> t[1], shift |-> t[2], odd |-> t[3], use_factordb |-> t[4]] :
        t \in (1..HugeMaxM) \X (HugeMinShift..HugeMaxShift) \X (0..1) \X BOOLEAN}

\* n.bit_length()
HugeBits(h) == h.shift + bit_length(h.m)

\* sqrt_n * sqrt_n == n
HugeIsSquare(h) ==
    /\ h.odd = 0
    /\ LET k == IF h.shift % 2 = 0 THEN h.m ELSE 2 * h.m
       IN  isqrt(k) * isqrt(k) = k

HugeMod2(h) == h.odd

HugeMod3(h) == ((h.m % 3) * (IF h.shift % 2 = 0 THEN 1 ELSE 2) + h.odd) % 3

\* smart_factor_n(n, use_factordb) on such n: the step that returns a pair,
\* or "none" for (None, None).  db and ecm tell whether the lookup and the
\* extended ECM call come back with a factor.
huge_smart_factor_n(h, db, ecm) ==
    LET bits == HugeBits(h)
    IN  IF HugeIsSquare(h) THEN "square"
        ELSE IF HugeMod2(h) = 0 THEN "div2"
        ELSE IF HugeMod3(h) = 0 THEN "div3"
        ELSE IF h.use_factordb /\ bits <= FactorDBMaxBits /\ db THEN "lookup"
        ELSE IF bits <= TrialBits THEN "trial"
        ELSE IF bits <= RhoBits THEN "rho"
        ELSE IF bits <= EcmBits /\ ecm THEN "ecm"
        ELSE IF bits <= MaxBits /\ ecm THEN "extended_ecm"
        ELSE "none"

InitHuge ==
    /\ args \in HugeInputs
    /\ ret = Pending
    /\ phase = "call"
    /\ EcmQuiet
    /\ CrackQuiet

RunHuge ==
    /\ phase = "call"
    /\ \E db \in BOOLEAN, ecm \in BOOLEAN :
          ret' = [bits |-> HugeBits(args), step |-> huge_smart_factor_n(args, db, ecm)]
    /\ phase' = "huge"
    /\ UNCHANGED <<args, ecmVars, crackVars>>

SpecHuge == InitHuge /\ [][RunHuge]_vars

\* C24: for n of more than 4096 bits smart_factor_n returns (None, None),
\* no step returning a pair.
HugeReturnsNotFound ==
    (phase = "huge" /\ ret.bits > MaxBits) => ret.step = "none"


-----------------------------------------------------------------------------
(* The two callers that derive a private exponent from the pair returned   *)
(* by smart_factor_n, on moduli n = r^2 with r composite: step 5 of        *)
(* crack_thread (n, e, c given, no p and q) and strategy 5 of              *)
(* double_encryption_attack.                                               *)

SquareMaxRoot == 6
SquareMaxE == 5

SquareMaxC == 9

\* crack_thread is given n, e = e1 and c (e2 repeats e1 and is not read),
\* double_encryption_attack n, e1, e2 and c.
SquareKeyInputs ==
    {[caller |-> t[1], n |-> t[2] * t[2], e1 |-> t[3], e2 |-> t[4], c |-> t[5]] :
        t \in {u \in {"crack_thread", "double_encryption_attack"}
                      \X (4..SquareMaxRoot) \X (2..SquareMaxE) \X (2..SquareMaxE)
                      \X (1..SquareMaxC) :
                 /\ ~is_prime(u[2])
                 /\ u[5] < u[2] * u[2]
                 /\ (u[1] = "crack_thread" => u[4] = u[3])}}

\* What smart_factor_n(n, use_factordb=True) can return, over the answers
\* of the lookup, the random draws and the ECM returns.
SquareFound(n) ==
    {smart_factor_n(n, TRUE, o[1], o[2], o[3], o[4][1], o[4][2]) :
        o \in FactorDBAnswers(n) \X RandomDraws(2, n - 1, RhoSeeds)
               \X RandomDraws(1, n, 3) \X EcmFreshReturns(n)}

InitSquareKey ==
    /\ args \in SquareKeyInputs
    /\ ret = Pending
    /\ phase = "call"
    /\ EcmQuiet
    /\ CrackQuiet

\* Step 5 of crack_thread with e = e1: the factorization is reached when
\* the low-exponent and the Wiener attack left m empty.
RunSquareCrack ==
    /\ phase = "call"
    /\ args.caller = "crack_thread"
    /\ \E found \in SquareFound(args.n) :
         LET reached == /\ ~(args.e1 <= LowExpGateE
                              /\ Truthy(low_exponent_attack(args.e1, args.n, args.c)))
                        /\ ~Truthy(wiener_attack(args.e1, args.n))
                        /\ bit_length(args.n) <= MaxBits
         IN  ret' = [reached |-> reached,
                     found |-> found,
                     m |-> IF reached
                             THEN factor_step(args.n, args.e1, args.c, found, None)
                             ELSE None]
    /\ phase' = "squarekey"
    /\ UNCHANGED <<args, ecmVars, crackVars>>

\* double_encryption_attack: strategy 5 is reached when strategies 1 to 4
\* fell through.
RunSquareDouble ==
    /\ phase = "call"
    /\ args.caller = "double_encryption_attack"
    /\ \E found \in SquareFound(args.n) :
         LET reached == double_local(args.n, args.e1, args.e2, args.c) = Fallthrough
         IN  ret' = [reached |-> reached,
                     found |-> found,
                     m |-> IF reached
                             THEN double_strategy5(args.n, args.e1, args.e2, args.c, found)
                             ELSE None]
    /\ phase' = "squarekey"
    /\ UNCHANGED <<args, ecmVars, crackVars>>

NextSquareKey == RunSquareCrack \/ RunSquareDouble

SpecSquareKey == InitSquareKey /\ [][NextSquareKey]_vars

\* C26: when smart_factor_n returned (r, r) with r composite, neither
\* caller comes out of its factorization step with a plaintext (a value
\* that tests true) computed from that pair.
SquarePairNotUsed ==
    (/\ phase = "squarekey"
     /\ ret.reached
     /\ ret.found[1] = ret.found[2]
     /\ Truthy(ret.found[1])
     /\ ~is_prime(ret.found[1])) => (ret.m = Raised \/ ~Truthy(ret.m))

\* The same for the orchestrator alone.
SquarePairNotUsedByCrack ==
    (args.caller = "crack_thread") => SquarePairNotUsed

\* The same for double_encryption_attack alone.
SquarePairNotUsedByDouble ==
    (args.caller = "double_encryption_attack") => SquarePairNotUsed


-----------------------------------------------------------------------------
(* pollard_rho_brent(n) step by step, counting the executions of           *)
(* y = (y * y + c) % n.  n is an odd number without the factor 3, too      *)
(* large for the sequence to be computed here (on a prime near 2^61 it     *)
(* does not meet itself within the first 131072 steps), so the value of    *)
(* g = gcd(q, n) after a batch is drawn: "1", a proper factor, or n.       *)
(* ret holds the locals g, r, k, iteration_limit and the count.            *)

BrentStepCap == 131072

\* The values of m = random.randrange(1, n) explored.
BrentBatchSizes == {1, 2, 1024, 1048576}

BrentPhases == {"outer", "inner", "retry", "return", "returned"}

InitBrent ==
    /\ args \in {[m |-> m] : m \in BrentBatchSizes}
    /\ ret = [g |-> "1", r |-> 1, k |-> 0, iteration_limit |-> RhoIterationLimit,
              steps |-> 0, result |-> Pending]
    /\ phase = "outer"
    /\ EcmQuiet
    /\ CrackQuiet

\* while g == 1 and iteration_limit > 0: x = y; for _ in range(r): y = ...;
\* k = 0
BrentOuterTest ==
    /\ phase = "outer"
    /\ ret.steps <= BrentStepCap
    /\ IF ret.g = "1" /\ ret.iteration_limit > 0
       THEN /\ ret' = [ret EXCEPT !.steps = @ + ret.r, !.k = 0]
            /\ phase' = "inner"
       ELSE /\ phase' = IF ret.g = "n" THEN "retry" ELSE "return"
            /\ UNCHANGED ret
    /\ UNCHANGED <<args, ecmVars, crackVars>>

\* while k < r and g == 1 and iteration_limit > 0: one batch of
\* min(m, r - k) steps, g = gcd(q, n), k += m, iteration_limit -= 1;
\* after the loop r <<= 1.
BrentInnerTest ==
    /\ phase = "inner"
    /\ ret.steps <= BrentStepCap
    /\ IF ret.k < ret.r /\ ret.g = "1" /\ ret.iteration_limit > 0
       THEN /\ \E g \in {"1", "factor", "n"} :
                 ret' = [ret EXCEPT !.steps = @ + Min(args.m, ret.r - ret.k),
                                    !.g = g,
                                    !.k = @ + args.m,
                                    !.iteration_limit = @ - 1]
            /\ UNCHANGED phase
       ELSE /\ ret' = [ret EXCEPT !.r = 2 * @]
            /\ phase' = "outer"
    /\ UNCHANGED <<args, ecmVars, crackVars>>

\* if g == n: the retry loop, which advances ys (not y) and ends with a
\* g > 1 or with the counter used up.
BrentRetryLoop ==
    /\ phase = "retry"
    /\ \E g \in {"factor", "n"}, left \in {0, ret.iteration_limit} :
          ret' = [ret EXCEPT !.g = g, !.iteration_limit = left]
    /\ phase' = "return"
    /\ UNCHANGED <<args, ecmVars, crackVars>>

\* if 1 < g < n: return g; else return None
BrentReturn ==
    /\ phase = "return"
    /\ ret' = [ret EXCEPT !.result = IF ret.g = "factor" THEN 1 ELSE None]
    /\ phase' = "returned"
    /\ UNCHANGED <<args, ecmVars, crackVars>>

NextBrent == BrentOuterTest \/ BrentInnerTest \/ BrentRetryLoop \/ BrentReturn

SpecBrent == InitBrent /\ [][NextBrent]_vars

\* C27: pollard_rho_brent executes y = (y * y + c) % n at most
\* iteration_limit = 100000 times in a call.
BrentStepsWithinLimit ==
    phase \in BrentPhases => ret.steps <= RhoIterationLimit


-----------------------------------------------------------------------------
(* hastad_broadcast_attack on any ciphertexts: e pairs with pairwise       *)
(* coprime moduli and every ciphertext a residue of its modulus, whether   *)
(* or not they encrypt one message.                                        *)

AnyBroadcastInputs ==
    UNION {{[e |-> Len(ns), moduli |-> ns, ciphertexts |-> cs] :
               cs \in {x \in [1..Len(ns) -> 0..(HastadMaxMod - 1)] :
                          \A i \in 1..Len(ns) : x[i] < ns[i]}} :
           ns \in {y \in HastadModuli :
                     /\ Len(y) >= 2
                     /\ Len(y) <= HastadMaxE
                     /\ PairwiseCoprime(y, Len(y))}}

InitBroadcast ==
    /\ args \in AnyBroadcastInputs
    /\ ret = Pending
    /\ phase = "call"
    /\ EcmQuiet
    /\ CrackQuiet

RunBroadcast ==
    /\ phase = "call"
    /\ ret' = hastad_broadcast_attack(args.e, args.ciphertexts, args.moduli, TRUE)
    /\ phase' = "broadcast"
    /\ UNCHANGED <<args, ecmVars, crackVars>>

SpecBroadcast == InitBroadcast /\ [][RunBroadcast]_vars

\* C28: a value m returned by hastad_broadcast_attack satisfies
\* m^e = c_i (mod n_i) on each of the first e pairs, also when it comes from
\* the retry on nearby values.
HastadResultConsistent ==
    (phase = "broadcast" /\ ret # None) =>
        \A i \in 1..args.e : pow(ret, args.e, args.moduli[i]) = args.ciphertexts[i]

=============================================================================
